---- MODULE Spec2Model ----
(***************************************************************************)
(* BingoMaster: the real-time game session coordinator                     *)
(* (server/controllers/game.ts) over the in-memory storage (MemStorage in  *)
(* server/storage.ts) and the board helpers (client/src/lib/utils.ts).     *)
(*                                                                         *)
(* Every handler is an async function: it runs synchronously up to its     *)
(* next `await storage.X(...)`, and other handlers may run in between.     *)
(* A handler in flight is a task record in the bag `tasks`; its field pc   *)
(* names the storage call it is suspended at.  One action performs that    *)
(* storage call and the synchronous code that follows it, up to the next   *)
(* await.                                                                  *)
(***************************************************************************)
EXTENDS Integers, Sequences, FiniteSets, Bags, TLC

\* ------------------------------------------------------------------------
\* Bounds and program constants
\* ------------------------------------------------------------------------
BoardSize == 3                          \* game.boardSize (smallest allowed)
NumQuestions == BoardSize * BoardSize   \* createGame needs >= boardSize^2
MaxTasks == 2                           \* handlers in flight at once
MaxFaults == 1                          \* storage calls that may fail
MaxTimers == 1                          \* pending auto-reveal timers
MaxRounds == 1                          \* questions issued in the voting runs
MaxVotes == 3                           \* select_answer votes received in the tally runs

Questions == 1..NumQuestions
GroupIds == <<"g1", "g2">>              \* group ids, in creation order
PlayerIds == <<"p1", "p2">>             \* ids handed out by randomUUID, in join order
Undefined == "undefined"                \* a field missing from the payload
NoCell == <<>>                          \* data.cellId missing
TheGame == "G"                          \* the one stored game
NoGame == "X"                           \* a game id no game is stored under
OtherGame == "H"                        \* a second stored game, where there is one
NoOtherGame == [status |-> "none"]      \* no second game is stored
NoCall == [boardSize |-> 0]             \* no board helper has been called

\* Sockets and the path each one was opened on: /game/<gid>[/player/<pid>].
Sockets == {"sh", "s1", "sn"}
SockGame(s) ==
    IF s = "sn" THEN NoGame ELSE IF s \in {"th", "t1"} THEN OtherGame ELSE TheGame
SockPid(s) ==
    IF s \in {"s1", "s1b"} THEN "p1"
    ELSE IF s = "s2" THEN "p2"
    ELSE IF s = "t1" THEN "q1" ELSE "host"
\* A second socket opened on p1's path: the client reconnects.
Reconnects == {"s1b"}

VARIABLES
    status,            \* game.status
    used,              \* question id -> question.used
    currentQuestion,   \* game.currentQuestion id, 0 when undefined
    players,           \* group -> sequence of player ids (group.players)
    board,             \* group -> sequence of cells [position, answer, correct]
    hasBingo,          \* group -> group.hasBingo
    bingoPattern,      \* group -> group.bingoPattern (<<>> when unset)
    playerAnswers,     \* MemStorage.playerAnswers: question key -> list of answers
    gameAnswers,       \* controller map gameId -> groupId -> playerId -> cellId
    gameConnections,   \* controller map <<gameId, participantId>> -> socket
    sockState,         \* socket -> "new" | "open" | "closed"
    tasks,             \* bag of handlers in flight
    timers,            \* setTimeout callbacks not yet fired
    faultBudget,       \* storage failures that may still be injected
    sent,              \* messages written by the step just taken
    arrivals,          \* select_answer votes in the order they were received
    other,             \* what the storage and the controller hold for a second game
    failing,           \* open sockets whose writes fail
    call               \* the board helper call last made: its input and what it returned

storageVars == <<status, used, currentQuestion, players, board, hasBingo,
                 bingoPattern, playerAnswers>>
vars == <<status, used, currentQuestion, players, board, hasBingo,
          bingoPattern, playerAnswers, gameAnswers, gameConnections,
          sockState, tasks, timers, faultBudget, sent, arrivals, other, failing, call>>

\* ------------------------------------------------------------------------
\* Board geometry (client/src/lib/utils.ts)
\* ------------------------------------------------------------------------
RowLetters == <<"A", "B", "C", "D", "E", "F", "G", "H">>

\* `${String.fromCharCode(65 + row)}${col + 1}`
PositionLabel(row, col) == RowLetters[row + 1] \o ToString(col + 1)

\* A grid filled column by column.
createPositionGridColumnMajor(size) ==
    [i \in 1..(size * size) |->
        PositionLabel((i - 1) % size, (i - 1) \div size)]

createPositionGrid(size) ==
    [i \in 1..(size * size) |->
        PositionLabel((i - 1) \div size, (i - 1) % size)]

\* pos.charCodeAt(0) - 65 and parseInt(pos.substring(1)) - 1
ParsePosition(pos) ==
    IF \E r \in 0..(Len(RowLetters) - 1), c \in 0..8 : PositionLabel(r, c) = pos
    THEN CHOOSE rc \in (0..(Len(RowLetters) - 1)) \X (0..8) :
             PositionLabel(rc[1], rc[2]) = pos
    ELSE <<-1, -1>>

\* board[row][col] = true for each position whose row and column are on the board
MarkedBoard(markedPositions, boardSize) ==
    {rc \in {ParsePosition(markedPositions[i]) : i \in 1..Len(markedPositions)} :
        /\ rc[1] >= 0 /\ rc[1] < boardSize
        /\ rc[2] >= 0 /\ rc[2] < boardSize}

\* A check that looks at the columns before the rows.
checkBingoPatternColumnsFirst(markedPositions, boardSize) ==
    LET b == MarkedBoard(markedPositions, boardSize)
        idx == 0..(boardSize - 1)
        rows == {i \in idx : \A j \in idx : <<i, j>> \in b}
        cols == {j \in idx : \A i \in idx : <<i, j>> \in b}
        Min(S) == CHOOSE m \in S : \A n \in S : m <= n
    IN  IF cols # {}
        THEN [k \in 1..boardSize |-> PositionLabel(k - 1, Min(cols))]
        ELSE IF rows # {}
        THEN [k \in 1..boardSize |-> PositionLabel(Min(rows), k - 1)]
        ELSE IF \A i \in idx : <<i, i>> \in b
        THEN [k \in 1..boardSize |-> PositionLabel(k - 1, k - 1)]
        ELSE IF \A i \in idx : <<i, boardSize - 1 - i>> \in b
        THEN [k \in 1..boardSize |-> PositionLabel(k - 1, boardSize - k)]
        ELSE <<>>

\* Returns the first complete line (rows, columns, diagonal, anti-diagonal)
\* as a sequence of labels, or <<>> for null.
checkBingoPattern(markedPositions, boardSize) ==
    LET b == MarkedBoard(markedPositions, boardSize)
        idx == 0..(boardSize - 1)
        rows == {i \in idx : \A j \in idx : <<i, j>> \in b}
        cols == {j \in idx : \A i \in idx : <<i, j>> \in b}
        Min(S) == CHOOSE m \in S : \A n \in S : m <= n
    IN  IF rows # {}
        THEN [k \in 1..boardSize |-> PositionLabel(Min(rows), k - 1)]
        ELSE IF cols # {}
        THEN [k \in 1..boardSize |-> PositionLabel(k - 1, Min(cols))]
        ELSE IF \A i \in idx : <<i, i>> \in b
        THEN [k \in 1..boardSize |-> PositionLabel(k - 1, k - 1)]
        ELSE IF \A i \in idx : <<i, boardSize - 1 - i>> \in b
        THEN [k \in 1..boardSize |-> PositionLabel(k - 1, boardSize - k)]
        ELSE <<>>

\* ------------------------------------------------------------------------
\* Helpers over the stored game
\* ------------------------------------------------------------------------
GameExists(gid) == gid = TheGame

\* game.groups: the groups the game was created with, in creation order.
Groups == DOMAIN players
GroupOrder == SelectSeq(GroupIds, LAMBDA g : g \in Groups)

SeqToSet(s) == {s[i] : i \in 1..Len(s)}

\* game.groups.find(group => group.players.some(player => player.id === playerId))
FindPlayerGroup(playerId) ==
    LET hits == {i \in 1..Len(GroupOrder) : playerId \in SeqToSet(players[GroupOrder[i]])}
    IN  IF hits = {} THEN Undefined
        ELSE GroupOrder[CHOOSE i \in hits : \A j \in hits : i <= j]

AllPlayers == UNION {SeqToSet(players[g]) : g \in Groups}

\* ------------------------------------------------------------------------
\* Messages and the connection registry
\* ------------------------------------------------------------------------
Msg(to, type, info) == [to |-> to, type |-> type, info |-> info]

\* A registry that is one map for the connections of every game.
BucketOfAllGames(gid) == DOMAIN gameConnections

\* gameConnections.get(gameId): the keys registered for the game
Bucket(gid) == {k \in DOMAIN gameConnections : k[1] = gid}

\* entries whose socket has readyState === WebSocket.OPEN
OpenKeys(gid) == {k \in Bucket(gid) : sockState[gameConnections[k]] = "open"}

\* A broadcast that skips the host's connection.
BroadcastToPlayers(gid, type, info) ==
    {Msg(gameConnections[k], type, info) :
        k \in {x \in OpenKeys(gid) : x[2] # "host"}}

Broadcast(gid, type, info) ==
    {Msg(gameConnections[k], type, info) : k \in OpenKeys(gid)}

\* ------------------------------------------------------------------------
\* Tasks
\* ------------------------------------------------------------------------
Task(kind, via, origin, gid, data) ==
    [kind |-> kind, pc |-> "getGame", via |-> via, origin |-> origin,
     gid |-> gid, playerId |-> data.playerId, cellId |-> data.cellId,
     position |-> data.position, timeLimit |-> data.timeLimit,
     group |-> Undefined, q |-> 0, answer |-> NoCell, pattern |-> <<>>]

NoData == [playerId |-> Undefined, cellId |-> NoCell, position |-> Undefined,
           timeLimit |-> Undefined]

Running == BagToSet(tasks)
Spawn(t) == tasks (+) SetToBag({t})
Finish(t) == tasks (-) SetToBag({t})
Move(t, t2) == (tasks (-) SetToBag({t})) (+) SetToBag({t2})
At(t, t2pc) == [t EXCEPT !.pc = t2pc]

\* New work is accepted only while the bounded resources have room.
Room == BagCardinality(tasks) < MaxTasks

\* A storage call either succeeds or, while the budget lasts, fails.
FaultChoices == IF faultBudget > 0 THEN {FALSE, TRUE} ELSE {FALSE}
Charge(fail) == faultBudget' = IF fail THEN faultBudget - 1 ELSE faultBudget

\* A catch that answers on every open connection of the game instead of the
\* originating one.
ErrorReplyToAll(t) ==
    IF t.via = "ws"
    THEN {[to |-> gameConnections[k], type |-> "error", info |-> <<>>] :
             k \in {x \in DOMAIN gameConnections :
                       sockState[gameConnections[x]] = "open"}}
         \cup {[to |-> t.origin, type |-> "error", info |-> <<>>]}
    ELSE {[to |-> "http", type |-> "http_error", info |-> <<>>]}

\* The reply a throw out of a handler produces: the message handler's catch
\* sends `error` on the originating socket; an HTTP controller answers with
\* an error status.
ErrorReply(t) ==
    IF t.via = "ws"
    THEN IF sockState[t.origin] = "open" /\ t.origin \notin failing
         THEN {Msg(t.origin, "error", <<>>)} ELSE {}
    ELSE IF t.via = "http" THEN {Msg("http", "http_error", <<>>)}
    ELSE {}

OkReply(t) == IF t.via = "http" THEN {Msg("http", "http_ok", <<>>)} ELSE {}

\* ------------------------------------------------------------------------
\* Initial state: MemStorage.createGame has stored one game, nobody joined,
\* no socket is connected.
\* ------------------------------------------------------------------------
\* The outcomes of shuffleArray considered for a group's board: cell i shows
\* the answer of question Shuffles[k][i].
Shuffles == { [i \in 1..NumQuestions |-> i] }

NewBoard(shuffle) ==
    [i \in 1..(BoardSize * BoardSize) |->
        [position |-> createPositionGrid(BoardSize)[i],
         answer |-> shuffle[((i - 1) % Len(shuffle)) + 1],
         correct |-> FALSE]]

InitStorage(groupCount) ==
    /\ status = "waiting"
    /\ used = [q \in Questions |-> FALSE]
    /\ currentQuestion = 0
    /\ players = [g \in {GroupIds[i] : i \in 1..groupCount} |-> <<>>]
    /\ board \in [{GroupIds[i] : i \in 1..groupCount} ->
                    {NewBoard(s) : s \in Shuffles}]
    /\ hasBingo = [g \in {GroupIds[i] : i \in 1..groupCount} |-> FALSE]
    /\ bingoPattern = [g \in {GroupIds[i] : i \in 1..groupCount} |-> <<>>]
    /\ playerAnswers = [k \in 0..NumQuestions |-> <<>>]

InitController ==
    /\ gameAnswers = [present |-> FALSE, groups |-> <<>>]
    /\ gameConnections = <<>>
    /\ sockState = [s \in Sockets |-> "new"]
    /\ tasks = EmptyBag
    /\ timers = 0
    /\ sent = {}
    /\ arrivals = <<>>
    /\ other = NoOtherGame
    /\ failing = {}
    /\ call = NoCall

\* MemStorage as exported: its calls fail only with the errors it throws itself.
Init == InitStorage(Len(GroupIds)) /\ InitController /\ faultBudget = 0

\* A storage collaborator whose calls may also fail on their own.
InitFaults == InitStorage(Len(GroupIds)) /\ InitController /\ faultBudget = MaxFaults

\* ------------------------------------------------------------------------
\* Connection lifecycle (handleWebSocketConnection)
\* ------------------------------------------------------------------------
ConnKey(s) == <<SockGame(s), SockPid(s)>>

\* gameConnections.get(gameId)?.set(playerId, ws): inserts or replaces.
Register(s) == (ConnKey(s) :> s) @@ gameConnections

\* gameConnections.get(gameId)?.delete(playerId), by key only.
Unregister(s) ==
    [k \in (DOMAIN gameConnections) \ {ConnKey(s)} |-> gameConnections[k]]

\* sendGameUpdate(gameId): the full view to the host, and to each open player
\* connection whose id is in a group that group's view.  The call is never
\* awaited by a handler and catches its own errors; it is taken with the step
\* that starts it.
\* A sendGameUpdate that sends the host's view to every open connection.
UpdateMessagesHostView(conns, state) ==
    {Msg(conns[k], "game_update", <<"host">>) :
        k \in {x \in DOMAIN conns : x[1] = TheGame /\ state[conns[x]] = "open"}}

\* A send that throws is caught by sendGameUpdate's own catch: the writes
\* that would have followed it are not made.  The host is written to first,
\* then the players (the registry holds one player entry where a write
\* fails).
UpdateMessages(conns, state) ==
    LET open == {k \in DOMAIN conns : k[1] = TheGame /\ state[conns[k]] = "open"}
        toHost == {x \in open : x[2] = "host"}
        toPlayers == {x \in open : x[2] # "host" /\ FindPlayerGroup(x[2]) # Undefined}
    IN  IF \E k \in toHost : conns[k] \in failing THEN {}
        ELSE {Msg(conns[k], "game_update", <<"host">>) : k \in toHost}
             \cup
             {Msg(conns[k], "game_update", <<"group", FindPlayerGroup(k[2])>>) :
                 k \in {x \in toPlayers : conns[x] \notin failing}}

sendGameUpdate(gid) ==
    IF GameExists(gid) THEN UpdateMessages(gameConnections, sockState) ELSE {}

\* A socket opens on a game path: it is registered and sendGameUpdate(gameId)
\* runs.
Connect(s) ==
    /\ sockState[s] = "new"
    /\ sockState' = [sockState EXCEPT ![s] = "open"]
    /\ gameConnections' = Register(s)
    /\ sent' = IF GameExists(SockGame(s))
               THEN UpdateMessages(Register(s), [sockState EXCEPT ![s] = "open"])
               ELSE {}
    /\ UNCHANGED <<storageVars, gameAnswers, tasks, timers, faultBudget, arrivals, other, failing, call>>

\* ws.on('close'): the entry under the socket's key is deleted.
Close(s) ==
    /\ sockState[s] = "open"
    /\ sockState' = [sockState EXCEPT ![s] = "closed"]
    /\ gameConnections' = Unregister(s)
    /\ sent' = {}
    /\ UNCHANGED <<storageVars, gameAnswers, tasks, timers, faultBudget, arrivals, other, failing, call>>

\* ------------------------------------------------------------------------
\* Inbound messages: ws.on('message') parses and dispatches
\* ------------------------------------------------------------------------
HandledTypes == {"start_game", "end_game", "next_question", "select_answer",
                 "host_selected", "reveal_answer", "answer_select"}

\* A message: its type ("unparseable" when JSON.parse throws) and payload.
Message(type, data) == [type |-> type, data |-> data]

OnMessage(s, m) ==
    /\ sockState[s] = "open"
    /\ Room
    /\ IF m.type = "unparseable"
       THEN \* JSON.parse throws inside the try: the catch replies.
            /\ sent' = {Msg(s, "error", <<>>)}
            /\ tasks' = tasks
       ELSE IF m.type \notin HandledTypes
       THEN \* default: console.warn only.
            /\ sent' = {}
            /\ tasks' = tasks
       ELSE IF m.type = "select_answer"
               /\ (m.data.playerId = Undefined \/ m.data.cellId = NoCell)
       THEN \* handleSelectAnswer validates before its first await.
            /\ sent' = {Msg(s, "error", <<>>)}
            /\ tasks' = tasks
       ELSE /\ sent' = {}
            /\ tasks' = Spawn(Task(m.type, "ws", s, SockGame(s), m.data))
    /\ UNCHANGED <<storageVars, gameAnswers, gameConnections, arrivals, other, failing, call, sockState,
                   timers, faultBudget>>

\* HTTP routes of an authenticated creator: /start, /end, /next-question.
OnRequest(kind) ==
    /\ Room
    /\ tasks' = Spawn(Task(kind, "http", "none", TheGame, NoData))
    /\ sent' = {}
    /\ UNCHANGED <<storageVars, gameAnswers, gameConnections, arrivals, other, failing, call, sockState,
                   timers, faultBudget>>

\* A throw reaches the caller: the handler ends and the error reply is written.
Abort(t) ==
    /\ tasks' = Finish(t)
    /\ sent' = ErrorReply(t)

\* ------------------------------------------------------------------------
\* start_game: handleStartGame and the HTTP controller startGame
\* ------------------------------------------------------------------------
\* handleStartGame without its `game.status !== 'waiting'` check.
StartGame_getGameAnyStatus(t) ==
    /\ t.kind = "start_game" /\ t.pc = "getGame"
    /\ \E fail \in FaultChoices :
        /\ Charge(fail)
        /\ IF fail \/ ~GameExists(t.gid)
           THEN Abort(t)
           ELSE tasks' = Move(t, At(t, "updateGameStatus")) /\ sent' = {}
    /\ UNCHANGED <<storageVars, gameAnswers, gameConnections, arrivals, other, failing, call, sockState,
                   timers>>

StartGame_getGame(t) ==
    /\ t.kind = "start_game" /\ t.pc = "getGame"
    /\ \E fail \in FaultChoices :
        /\ Charge(fail)
        /\ IF fail \/ ~GameExists(t.gid) \/ status # "waiting"
           THEN Abort(t)
           ELSE tasks' = Move(t, At(t, "updateGameStatus")) /\ sent' = {}
    /\ UNCHANGED <<storageVars, gameAnswers, gameConnections, arrivals, other, failing, call, sockState,
                   timers>>

\* MemStorage.updateGameStatus(gameId, 'active'), then sendGameUpdate.
StartGame_updateGameStatus(t) ==
    /\ t.kind = "start_game" /\ t.pc = "updateGameStatus"
    /\ \E fail \in FaultChoices :
        /\ Charge(fail)
        /\ IF fail
           THEN Abort(t) /\ UNCHANGED status
           ELSE /\ status' = "active"
                /\ tasks' = Finish(t)
                /\ sent' = sendGameUpdate(t.gid) \cup OkReply(t)
    /\ UNCHANGED <<used, currentQuestion, players, board, hasBingo,
                   bingoPattern, playerAnswers, gameAnswers, gameConnections, arrivals, other, failing, call,
                   sockState, timers>>

handleStartGame_getGame ==
    \E t \in Running : t.via = "ws" /\ StartGame_getGame(t)
handleStartGame_updateGameStatus ==
    \E t \in Running : t.via = "ws" /\ StartGame_updateGameStatus(t)
startGame_getGame ==
    \E t \in Running : t.via = "http" /\ StartGame_getGame(t)
startGame_updateGameStatus ==
    \E t \in Running : t.via = "http" /\ StartGame_updateGameStatus(t)

\* ------------------------------------------------------------------------
\* end_game: handleEndGame and the HTTP controller endGame
\* ------------------------------------------------------------------------
EndGame_getGame(t) ==
    /\ t.kind = "end_game" /\ t.pc = "getGame"
    /\ \E fail \in FaultChoices :
        /\ Charge(fail)
        /\ IF fail \/ ~GameExists(t.gid) \/ status # "active"
           THEN Abort(t)
           ELSE tasks' = Move(t, At(t, "updateGameStatus")) /\ sent' = {}
    /\ UNCHANGED <<storageVars, gameAnswers, gameConnections, arrivals, other, failing, call, sockState,
                   timers>>

\* updateGameStatus(gameId, 'completed'), sendGameUpdate, then the game_over loop.
EndGame_updateGameStatus(t) ==
    /\ t.kind = "end_game" /\ t.pc = "updateGameStatus"
    /\ \E fail \in FaultChoices :
        /\ Charge(fail)
        /\ IF fail
           THEN Abort(t) /\ UNCHANGED status
           ELSE /\ status' = "completed"
                /\ tasks' = Finish(t)
                /\ sent' = sendGameUpdate(t.gid)
                           \cup Broadcast(t.gid, "game_over", <<"ended">>)
                           \cup OkReply(t)
    /\ UNCHANGED <<used, currentQuestion, players, board, hasBingo,
                   bingoPattern, playerAnswers, gameAnswers, gameConnections, arrivals, other, failing, call,
                   sockState, timers>>

handleEndGame_getGame ==
    \E t \in Running : t.via = "ws" /\ EndGame_getGame(t)
handleEndGame_updateGameStatus ==
    \E t \in Running : t.via = "ws" /\ EndGame_updateGameStatus(t)
endGame_getGame ==
    \E t \in Running : t.via = "http" /\ EndGame_getGame(t)
endGame_updateGameStatus ==
    \E t \in Running : t.via = "http" /\ EndGame_updateGameStatus(t)

\* ------------------------------------------------------------------------
\* next_question: handleNextQuestion and the HTTP controller nextQuestion
\* ------------------------------------------------------------------------
\* game.questions.find(q => !q.used): 0 when every question is used.
\* A getNextQuestion that starts over with the first question when every
\* question is used.
FirstUnusedOrFirst ==
    IF \A q \in Questions : used[q] THEN 1
    ELSE CHOOSE q \in Questions : ~used[q] /\ \A r \in Questions : ~used[r] => q <= r

FirstUnused ==
    IF \A q \in Questions : used[q] THEN 0
    ELSE CHOOSE q \in Questions : ~used[q] /\ \A r \in Questions : ~used[r] => q <= r

NextQuestion_getGame(t) ==
    /\ t.kind = "next_question" /\ t.pc = "getGame"
    /\ \E fail \in FaultChoices :
        /\ Charge(fail)
        /\ IF fail \/ ~GameExists(t.gid) \/ status # "active"
           THEN Abort(t)
           ELSE tasks' = Move(t, At(t, "getNextQuestion")) /\ sent' = {}
    /\ UNCHANGED <<storageVars, gameAnswers, gameConnections, arrivals, other, failing, call, sockState,
                   timers>>

\* MemStorage.getNextQuestion: marks the first unused question used and
\* returns it, or returns null.
NextQuestion_getNextQuestion(t) ==
    /\ t.kind = "next_question" /\ t.pc = "getNextQuestion"
    /\ \E fail \in FaultChoices :
        /\ Charge(fail)
        /\ IF fail
           THEN Abort(t) /\ UNCHANGED used
           ELSE IF FirstUnused = 0
           THEN /\ tasks' = Move(t, At(t, "updateGameStatus"))
                /\ sent' = {}
                /\ UNCHANGED used
           ELSE /\ used' = [used EXCEPT ![FirstUnused] = TRUE]
                /\ tasks' = Move(t, [t EXCEPT !.pc = "updateCurrentQuestion",
                                              !.q = FirstUnused])
                /\ sent' = {}
    /\ UNCHANGED <<status, currentQuestion, players, board, hasBingo,
                   bingoPattern, playerAnswers, gameAnswers, gameConnections, arrivals, other, failing, call,
                   sockState, timers>>

\* No question left: updateGameStatus(gameId, 'completed'), sendGameUpdate;
\* the game_over loop follows in handleNextQuestion only.
NextQuestion_updateGameStatus(t) ==
    /\ t.kind = "next_question" /\ t.pc = "updateGameStatus"
    /\ \E fail \in FaultChoices :
        /\ Charge(fail)
        /\ IF fail
           THEN Abort(t) /\ UNCHANGED status
           ELSE /\ status' = "completed"
                /\ tasks' = Finish(t)
                /\ sent' = sendGameUpdate(t.gid) \cup
                           (IF t.via = "ws"
                            THEN Broadcast(t.gid, "game_over", <<"exhausted">>)
                            ELSE OkReply(t))
    /\ UNCHANGED <<used, currentQuestion, players, board, hasBingo,
                   bingoPattern, playerAnswers, gameAnswers, gameConnections, arrivals, other, failing, call,
                   sockState, timers>>

\* MemStorage.updateCurrentQuestion, then sendGameUpdate.
NextQuestion_updateCurrentQuestion(t) ==
    /\ t.kind = "next_question" /\ t.pc = "updateCurrentQuestion"
    /\ \E fail \in FaultChoices :
        /\ Charge(fail)
        /\ IF fail
           THEN Abort(t) /\ UNCHANGED currentQuestion
           ELSE /\ currentQuestion' = t.q
                /\ tasks' = Finish(t)
                /\ sent' = sendGameUpdate(t.gid) \cup OkReply(t)
    /\ UNCHANGED <<status, used, players, board, hasBingo, bingoPattern,
                   playerAnswers, gameAnswers, gameConnections, arrivals, other, failing, call, sockState,
                   timers>>

handleNextQuestion_getGame ==
    \E t \in Running : t.via = "ws" /\ NextQuestion_getGame(t)
handleNextQuestion_getNextQuestion ==
    \E t \in Running : t.via = "ws" /\ NextQuestion_getNextQuestion(t)
handleNextQuestion_updateGameStatus ==
    \E t \in Running : t.via = "ws" /\ NextQuestion_updateGameStatus(t)
handleNextQuestion_updateCurrentQuestion ==
    \E t \in Running : t.via = "ws" /\ NextQuestion_updateCurrentQuestion(t)
nextQuestion_getGame ==
    \E t \in Running : t.via = "http" /\ NextQuestion_getGame(t)
nextQuestion_getNextQuestion ==
    \E t \in Running : t.via = "http" /\ NextQuestion_getNextQuestion(t)
nextQuestion_updateGameStatus ==
    \E t \in Running : t.via = "http" /\ NextQuestion_updateGameStatus(t)
nextQuestion_updateCurrentQuestion ==
    \E t \in Running : t.via = "http" /\ NextQuestion_updateCurrentQuestion(t)

\* ------------------------------------------------------------------------
\* The lifecycle runs: connections and the start / end / next events over
\* both transports, every question of the game included.
\* ------------------------------------------------------------------------
LifecycleTypes == {"start_game", "end_game", "next_question"}
LifecycleSockets == {"sh", "s1"}

LifecycleMessage ==
    \E s \in LifecycleSockets, type \in LifecycleTypes :
        OnMessage(s, Message(type, NoData))
LifecycleRequest ==
    \E kind \in LifecycleTypes : OnRequest(kind)
Connection == \E s \in LifecycleSockets : Connect(s)
Disconnection == \E s \in Sockets : Close(s)

NextLifecycle ==
    \/ Connection
    \/ Disconnection
    \/ LifecycleMessage
    \/ LifecycleRequest
    \/ handleStartGame_getGame
    \/ handleStartGame_updateGameStatus
    \/ startGame_getGame
    \/ startGame_updateGameStatus
    \/ handleEndGame_getGame
    \/ handleEndGame_updateGameStatus
    \/ endGame_getGame
    \/ endGame_updateGameStatus
    \/ handleNextQuestion_getGame
    \/ handleNextQuestion_getNextQuestion
    \/ handleNextQuestion_updateGameStatus
    \/ handleNextQuestion_updateCurrentQuestion
    \/ nextQuestion_getGame
    \/ nextQuestion_getNextQuestion
    \/ nextQuestion_updateGameStatus
    \/ nextQuestion_updateCurrentQuestion

SpecLifecycle == Init /\ [][NextLifecycle]_vars

\* ------------------------------------------------------------------------
\* joinGame (HTTP) and MemStorage.addPlayerToGame
\* ------------------------------------------------------------------------
PlayerCount == Cardinality(AllPlayers)

\* Handlers of one kind in flight.
InFlight(kind) ==
    BagCardinality([t \in {x \in Running : x.kind = kind} |-> tasks[t]])

\* The first group with the fewest players.
MinPlayersGroup ==
    LET i == CHOOSE k \in 1..Len(GroupOrder) :
                 /\ \A j \in 1..Len(GroupOrder) :
                        Len(players[GroupOrder[k]]) <= Len(players[GroupOrder[j]])
                 /\ \A j \in 1..(k - 1) :
                        Len(players[GroupOrder[j]]) > Len(players[GroupOrder[k]])
    IN  GroupOrder[i]

JoinRequest ==
    /\ Room
    /\ PlayerCount + InFlight("join") < Len(PlayerIds)
    /\ tasks' = Spawn(Task("join", "http", "none", TheGame, NoData))
    /\ sent' = {}
    /\ UNCHANGED <<storageVars, gameAnswers, gameConnections, arrivals, other, failing, call, sockState,
                   timers, faultBudget>>

joinGame_getGame ==
    \E t \in Running :
        /\ t.kind = "join" /\ t.pc = "getGame"
        /\ \E fail \in FaultChoices :
            /\ Charge(fail)
            /\ IF fail \/ status # "waiting"
               THEN Abort(t)
               ELSE tasks' = Move(t, At(t, "addPlayerToGame")) /\ sent' = {}
        /\ UNCHANGED <<storageVars, gameAnswers, gameConnections, arrivals, other, failing, call, sockState,
                       timers>>

\* An addPlayerToGame that leaves the status check to its caller.
AddPlayerRejectsNever == FALSE

\* MemStorage.addPlayerToGame: `game.status !== 'waiting'` throws.
AddPlayerRejects == status # "waiting"

\* addPlayerToGame re-checks the status, pushes the player to the smallest
\* group; then player_joined goes to every open connection and the
\* controller awaits sendGameUpdate.
joinGame_addPlayerToGame ==
    \E t \in Running :
        /\ t.kind = "join" /\ t.pc = "addPlayerToGame"
        /\ \E fail \in FaultChoices :
            /\ Charge(fail)
            /\ IF fail \/ AddPlayerRejects
               THEN Abort(t) /\ UNCHANGED players
               ELSE /\ players' = [players EXCEPT ![MinPlayersGroup] =
                                     Append(@, PlayerIds[PlayerCount + 1])]
                    /\ tasks' = Move(t, At(t, "sendGameUpdate"))
                    /\ sent' = Broadcast(TheGame, "player_joined",
                                         <<MinPlayersGroup>>)
        /\ UNCHANGED <<status, used, currentQuestion, board, hasBingo,
                       bingoPattern, playerAnswers, gameAnswers,
                       gameConnections, arrivals, other, failing, call, sockState, timers>>

joinGame_sendGameUpdate ==
    \E t \in Running :
        /\ t.kind = "join" /\ t.pc = "sendGameUpdate"
        /\ \E fail \in FaultChoices :
            /\ Charge(fail)
            /\ sent' = (IF fail THEN {} ELSE sendGameUpdate(t.gid)) \cup OkReply(t)
        /\ tasks' = Finish(t)
        /\ UNCHANGED <<storageVars, gameAnswers, gameConnections, arrivals, other, failing, call, sockState,
                       timers>>

\* ------------------------------------------------------------------------
\* select_answer: handleSelectAnswer, checkGroupConsensus and the storage
\* calls they make
\* ------------------------------------------------------------------------
\* cellId.split('-'): a cell id is kept as its '-'-separated parts.
CellIdOk(cellId) == Len(cellId) = 2
CellPosition(cellId) == cellId[2]

\* group.board.find(c => c.position === position): index, 0 when not found.
FindCell(g, position) ==
    LET hits == {i \in 1..Len(board[g]) : board[g][i].position = position}
    IN  IF hits = {} THEN 0 ELSE CHOOSE i \in hits : \A j \in hits : i <= j

\* A recordPlayerAnswer that pushes every answer, also a player's second.
RecordedAnswersAppended(playerId, g, cellId) ==
    Append(playerAnswers[currentQuestion],
           [playerId |-> playerId, groupId |-> g, cellId |-> cellId])

\* MemStorage.recordPlayerAnswer: the list under the current question's key
\* with the player's entry replaced in place, or appended.
RecordedAnswers(playerId, g, cellId) ==
    LET answers == playerAnswers[currentQuestion]
        entry == [playerId |-> playerId, groupId |-> g, cellId |-> cellId]
        hits == {i \in 1..Len(answers) : answers[i].playerId = playerId}
    IN  IF hits = {} THEN Append(answers, entry)
        ELSE [answers EXCEPT ![CHOOSE i \in hits : \A j \in hits : i <= j] = entry]

\* The checks MemStorage.recordPlayerAnswer makes before it writes.
RecordPlayerAnswerThrows(playerId, g, cellId) ==
    \/ g \notin Groups
    \/ playerId \notin SeqToSet(players[g])
    \/ ~CellIdOk(cellId)

\* MemStorage.getGroupAnswers
getGroupAnswers(g) ==
    IF currentQuestion = 0 THEN <<>>
    ELSE SelectSeq(playerAnswers[currentQuestion], LAMBDA a : a.groupId = g)

\* checkGroupConsensus: counts per cellId (a Map, so in order of first
\* appearance), then the first entry with a strictly higher count wins.
Count(cells, c) == Cardinality({i \in 1..Len(cells) : cells[i] = c})
FirstIndex(cells, c) == CHOOSE i \in 1..Len(cells) :
                            cells[i] = c /\ \A j \in 1..(i - 1) : cells[j] # c
MostCommonAnswer(cells) ==
    IF Len(cells) = 0 THEN NoCell
    ELSE LET c == CHOOSE x \in SeqToSet(cells) :
                      \A y \in SeqToSet(cells) :
                          \/ Count(cells, x) > Count(cells, y)
                          \/ /\ Count(cells, x) = Count(cells, y)
                             /\ FirstIndex(cells, x) <= FirstIndex(cells, y)
         IN  c

CellsOf(answers) == [i \in 1..Len(answers) |-> answers[i].cellId]

\* MemStorage.getGroupCorrectAnswers: positions of the correct cells, in
\* board order.
getGroupCorrectAnswers(g) ==
    LET correct == SelectSeq(board[g], LAMBDA c : c.correct)
    IN  [i \in 1..Len(correct) |-> correct[i].position]

\* The handler's last statement is sendGameUpdate(gameId); `more` are the
\* messages the step wrote before it.
FinishWithUpdate(t, more) ==
    /\ tasks' = Finish(t)
    /\ sent' = more \cup sendGameUpdate(t.gid)

SelectAnswer_getGame(t) ==
    /\ t.kind = "select_answer" /\ t.pc = "getGame"
    /\ \E fail \in FaultChoices :
        /\ Charge(fail)
        /\ IF \/ fail \/ ~GameExists(t.gid) \/ status # "active"
              \/ FindPlayerGroup(t.playerId) = Undefined
           THEN Abort(t)
           ELSE /\ tasks' = Move(t, [t EXCEPT !.pc = "recordPlayerAnswer",
                                              !.group = FindPlayerGroup(t.playerId)])
                /\ sent' = {}
    /\ UNCHANGED <<storageVars, gameAnswers, gameConnections, arrivals, other, failing, call, sockState,
                   timers>>

SelectAnswer_recordPlayerAnswer(t) ==
    /\ t.kind = "select_answer" /\ t.pc = "recordPlayerAnswer"
    /\ \E fail \in FaultChoices :
        /\ Charge(fail)
        /\ IF fail \/ RecordPlayerAnswerThrows(t.playerId, t.group, t.cellId)
           THEN Abort(t) /\ UNCHANGED playerAnswers
           ELSE /\ playerAnswers' = [playerAnswers EXCEPT ![currentQuestion] =
                                       RecordedAnswers(t.playerId, t.group, t.cellId)]
                /\ tasks' = Move(t, At(t, "getGroupAnswers"))
                /\ sent' = {}
    /\ UNCHANGED <<status, used, currentQuestion, players, board, hasBingo,
                   bingoPattern, gameAnswers, gameConnections, arrivals, other, failing, call, sockState,
                   timers>>

\* checkGroupConsensus up to its setGroupAnswer: getGame, getGroupAnswers and
\* the count.  An error here is caught inside checkGroupConsensus.
SelectAnswer_getGroupAnswers(t) ==
    /\ t.kind = "select_answer" /\ t.pc = "getGroupAnswers"
    /\ \E fail \in FaultChoices :
        /\ Charge(fail)
        /\ IF fail \/ Len(getGroupAnswers(t.group)) = 0
           THEN FinishWithUpdate(t, {})
           ELSE /\ tasks' = Move(t, [t EXCEPT !.pc = "setGroupAnswer",
                     !.answer = MostCommonAnswer(CellsOf(getGroupAnswers(t.group)))])
                /\ sent' = {}
    /\ UNCHANGED <<storageVars, gameAnswers, gameConnections, arrivals, other, failing, call, sockState, timers>>

\* MemStorage.setGroupAnswer: cell.correct = (cell.answer === question.question)
SetGroupAnswerThrows(g, cellId) ==
    \/ currentQuestion = 0
    \/ ~CellIdOk(cellId)
    \/ FindCell(g, CellPosition(cellId)) = 0

BoardWithAnswer(g, cellId) ==
    [board EXCEPT ![g][FindCell(g, CellPosition(cellId))].correct =
        (board[g][FindCell(g, CellPosition(cellId))].answer = currentQuestion)]

SelectAnswer_setGroupAnswer(t) ==
    /\ t.kind = "select_answer" /\ t.pc = "setGroupAnswer"
    /\ \E fail \in FaultChoices :
        /\ Charge(fail)
        /\ IF fail \/ SetGroupAnswerThrows(t.group, t.answer)
           THEN FinishWithUpdate(t, {}) /\ UNCHANGED board
           ELSE /\ board' = BoardWithAnswer(t.group, t.answer)
                /\ tasks' = Move(t, At(t, "getGroupCorrectAnswers"))
                /\ sent' = {}
    /\ UNCHANGED <<status, used, currentQuestion, players, hasBingo,
                   bingoPattern, playerAnswers, gameAnswers, gameConnections, arrivals, other, failing, call,
                   sockState, timers>>

SelectAnswer_getGroupCorrectAnswers(t) ==
    /\ t.kind = "select_answer" /\ t.pc = "getGroupCorrectAnswers"
    /\ \E fail \in FaultChoices :
        /\ Charge(fail)
        /\ LET correctAnswers == getGroupCorrectAnswers(t.group)
               found == IF Len(correctAnswers) >= BoardSize
                        THEN checkBingoPattern(correctAnswers, BoardSize)
                        ELSE <<>>
           IN  IF fail \/ found = <<>>
               THEN FinishWithUpdate(t, {})
               ELSE /\ tasks' = Move(t, [t EXCEPT !.pc = "setGroupBingo",
                                                  !.pattern = found])
                    /\ sent' = {}
    /\ UNCHANGED <<storageVars, gameAnswers, gameConnections, arrivals, other, failing, call, sockState, timers>>

\* A setGroupBingo that flips the flag instead of setting it.
BingoFlagsToggled(g) == [hasBingo EXCEPT ![g] = ~@]

\* MemStorage.setGroupBingo: group.hasBingo = true
BingoFlags(g) == [hasBingo EXCEPT ![g] = TRUE]

\* MemStorage.setGroupBingo, then bingo_achieved to every open connection.
SelectAnswer_setGroupBingo(t) ==
    /\ t.kind = "select_answer" /\ t.pc = "setGroupBingo"
    /\ \E fail \in FaultChoices :
        /\ Charge(fail)
        /\ IF fail
           THEN FinishWithUpdate(t, {}) /\ UNCHANGED <<hasBingo, bingoPattern>>
           ELSE /\ hasBingo' = BingoFlags(t.group)
                /\ bingoPattern' = [bingoPattern EXCEPT ![t.group] = t.pattern]
                /\ FinishWithUpdate(t, Broadcast(t.gid, "bingo_achieved",
                                                 <<t.group, t.pattern>>))
    /\ UNCHANGED <<status, used, currentQuestion, players, board,
                   playerAnswers, gameAnswers, gameConnections, arrivals, other, failing, call, sockState,
                   timers>>

handleSelectAnswer_getGame ==
    \E t \in Running : t.via = "ws" /\ SelectAnswer_getGame(t)
handleSelectAnswer_recordPlayerAnswer ==
    \E t \in Running : t.via = "ws" /\ SelectAnswer_recordPlayerAnswer(t)
checkGroupConsensus_getGroupAnswers ==
    \E t \in Running : t.via = "ws" /\ SelectAnswer_getGroupAnswers(t)
checkGroupConsensus_setGroupAnswer ==
    \E t \in Running : t.via = "ws" /\ SelectAnswer_setGroupAnswer(t)
checkGroupConsensus_getGroupCorrectAnswers ==
    \E t \in Running : t.via = "ws" /\ SelectAnswer_getGroupCorrectAnswers(t)
checkGroupConsensus_setGroupBingo ==
    \E t \in Running : t.via = "ws" /\ SelectAnswer_setGroupBingo(t)

\* ------------------------------------------------------------------------
\* The in-memory votes: gameAnswers (gameId -> groupId -> playerId -> cellId)
\* A Map keeps insertion order: a group's votes are a sequence of
\* <<playerId, cellId>> pairs, a re-vote replaces the pair in place.
\* ------------------------------------------------------------------------
GroupVotes(g) ==
    IF gameAnswers.present /\ g \in DOMAIN gameAnswers.groups
    THEN gameAnswers.groups[g] ELSE <<>>

MapSet(votes, playerId, cellId) ==
    LET hits == {i \in 1..Len(votes) : votes[i][1] = playerId}
    IN  IF hits = {} THEN Append(votes, <<playerId, cellId>>)
        ELSE [votes EXCEPT ![CHOOSE i \in hits : TRUE] = <<playerId, cellId>>]

VotedCells(votes) == [i \in 1..Len(votes) |-> votes[i][2]]

\* ------------------------------------------------------------------------
\* host_selected: handleHostSelection (one await; errors are only logged)
\* ------------------------------------------------------------------------
\* host_selected goes to every open connection but the host's, with the
\* content of the cell at that position on the recipient's own group's board.
HostSelectedMessages(gid, position) ==
    {Msg(gameConnections[k], "host_selected", <<position, FindPlayerGroup(k[2])>>) :
        k \in {x \in OpenKeys(gid) : x[2] # "host"}}

handleHostSelection ==
    \E t \in Running :
        /\ t.kind = "host_selected" /\ t.pc = "getGame"
        /\ tasks' = Finish(t)
        /\ \E fail \in FaultChoices :
            /\ Charge(fail)
            /\ IF fail \/ ~GameExists(t.gid) \/ status # "active"
               THEN sent' = {} /\ UNCHANGED <<gameAnswers, timers>>
               ELSE /\ gameAnswers' = [present |-> TRUE,
                                       groups |-> [g \in Groups |-> <<>>]]
                    /\ IF Bucket(t.gid) = {}
                       THEN sent' = {} /\ UNCHANGED timers
                       ELSE /\ sent' = HostSelectedMessages(t.gid, t.position)
                            /\ timers' = timers + 1
        /\ UNCHANGED <<storageVars, gameConnections, arrivals, other, failing, call, sockState>>

\* ------------------------------------------------------------------------
\* answer_select: handlePlayerAnswer (one await; errors are only logged)
\* ------------------------------------------------------------------------
\* game.groups.flatMap(g => g.board).find(c => c.position === position): the
\* cell whose content the vote options carry, as <<group, position>>, or
\* <<>> when no board has the position (content '').
OptionCell(position) ==
    LET hits == {i \in 1..Len(GroupOrder) : FindCell(GroupOrder[i], position) # 0}
    IN  IF hits = {} THEN <<>>
        ELSE <<GroupOrder[CHOOSE i \in hits : \A j \in hits : i <= j], position>>

PlayerVoteMessages(gid, g, playerId, cellId, position) ==
    {Msg(gameConnections[k], "player_vote",
         <<g, playerId, cellId, OptionCell(position)>>) :
        k \in {x \in OpenKeys(gid) :
                 x[2] \in SeqToSet(players[g]) \/ x[2] = "host"}}

handlePlayerAnswer ==
    \E t \in Running :
        /\ t.kind = "answer_select" /\ t.pc = "getGame"
        /\ tasks' = Finish(t)
        /\ \E fail \in FaultChoices :
            /\ Charge(fail)
            /\ IF \/ fail \/ ~GameExists(t.gid) \/ status # "active"
                  \/ FindPlayerGroup(t.playerId) = Undefined
               THEN sent' = {} /\ UNCHANGED gameAnswers
               ELSE LET g == FindPlayerGroup(t.playerId) IN
                    /\ gameAnswers' =
                         [present |-> TRUE,
                          groups |-> (g :> MapSet(GroupVotes(g), t.playerId, t.cellId))
                                     @@ (IF gameAnswers.present
                                         THEN gameAnswers.groups ELSE <<>>)]
                    /\ sent' = IF Bucket(t.gid) = {} THEN {}
                               ELSE PlayerVoteMessages(t.gid, g, t.playerId, t.cellId,
                                                       t.position)
        /\ UNCHANGED <<storageVars, gameConnections, arrivals, other, failing, call, sockState, timers>>

\* ------------------------------------------------------------------------
\* reveal_answer: handleRevealAnswer (errors are only logged)
\* ------------------------------------------------------------------------
\* The tally loop: a cell takes the lead when its running count exceeds the
\* highest count seen so far.
RECURSIVE RevealTally(_, _, _, _)
RevealTally(cells, i, mostCommonAnswer, highestCount) ==
    IF i > Len(cells) THEN mostCommonAnswer
    ELSE LET count == Cardinality({j \in 1..(i - 1) : cells[j] = cells[i]})
         IN  IF count + 1 > highestCount
             THEN RevealTally(cells, i + 1, cells[i], count + 1)
             ELSE RevealTally(cells, i + 1, mostCommonAnswer, highestCount)

RevealConsensus(votes) == RevealTally(VotedCells(votes), 1, NoCell, 0)

\* The loop without its `groupAnswers.size === 0` and `if (mostCommonAnswer)`
\* guards: every group reaches the recordPlayerAnswer call.
RevealCandidatesUnguarded(from) == from..Len(GroupOrder)

\* The groups from index `from` on that reach the recordPlayerAnswer call:
\* votes present and a truthy consensus.
RevealCandidates(from) ==
    {i \in from..Len(GroupOrder) :
        /\ Len(GroupVotes(GroupOrder[i])) > 0
        /\ RevealConsensus(GroupVotes(GroupOrder[i])) # NoCell}

\* gameAnswers.get(gameId)?.clear()
ClearedAnswers ==
    IF gameAnswers.present THEN [present |-> TRUE, groups |-> <<>>]
    ELSE gameAnswers

\* The loop from group index `from`: suspend at the next group's
\* recordPlayerAnswer, or leave the loop, clear the game's votes and start
\* sendGameUpdate.
RevealLoop(t, from) ==
    IF RevealCandidates(from) # {}
    THEN LET i == CHOOSE k \in RevealCandidates(from) :
                      \A j \in RevealCandidates(from) : k <= j
         IN  /\ tasks' = Move(t, [t EXCEPT !.pc = "recordPlayerAnswer",
                                  !.group = GroupOrder[i], !.q = i,
                                  !.answer = RevealConsensus(GroupVotes(GroupOrder[i]))])
             /\ sent' = {}
             /\ UNCHANGED gameAnswers
    ELSE /\ gameAnswers' = ClearedAnswers
         /\ FinishWithUpdate(t, {})

handleRevealAnswer_getGame ==
    \E t \in Running :
        /\ t.kind = "reveal_answer" /\ t.pc = "getGame"
        /\ \E fail \in FaultChoices :
            /\ Charge(fail)
            /\ IF fail \/ ~GameExists(t.gid) \/ status # "active"
               THEN /\ tasks' = Finish(t)
                    /\ sent' = {}
                    /\ UNCHANGED gameAnswers
               ELSE RevealLoop(t, 1)
        /\ UNCHANGED <<storageVars, gameConnections, arrivals, other, failing, call, sockState, timers>>

\* storage.recordPlayerAnswer(gameId, 'group', group.id, mostCommonAnswer):
\* MemStorage looks the player id 'group' up in group.players.
handleRevealAnswer_recordPlayerAnswer ==
    \E t \in Running :
        /\ t.kind = "reveal_answer" /\ t.pc = "recordPlayerAnswer"
        /\ sent' = {}
        /\ \E fail \in FaultChoices :
            /\ Charge(fail)
            /\ IF fail \/ RecordPlayerAnswerThrows("group", t.group, t.answer)
               THEN tasks' = Finish(t) /\ UNCHANGED playerAnswers
               ELSE /\ playerAnswers' = [playerAnswers EXCEPT ![currentQuestion] =
                                           RecordedAnswers("group", t.group, t.answer)]
                    /\ tasks' = Move(t, At(t, "setGroupAnswer"))
        /\ UNCHANGED <<status, used, currentQuestion, players, board, hasBingo,
                       bingoPattern, gameAnswers, gameConnections, arrivals, other, failing, call, sockState,
                       timers>>

\* The setTimeout callback of handleHostSelection: nothing cancels it.  The
\* callback has no socket of origin; the field records instead whether the
\* game had completed when the timer fired (the callback does not look).
TimerFires ==
    /\ timers > 0
    /\ BagCardinality(tasks) < MaxTasks
    /\ timers' = timers - 1
    /\ tasks' = Spawn(Task("reveal_answer", "timer",
                           IF status = "completed" THEN "after_end" ELSE "none",
                           TheGame, NoData))
    /\ sent' = {}
    /\ UNCHANGED <<storageVars, gameAnswers, gameConnections, arrivals, other, failing, call, sockState,
                   faultBudget>>

\* ------------------------------------------------------------------------
\* The voting runs: every inbound event type with well-formed and malformed
\* payloads, joins, timers, a bounded number of questions.
\* ------------------------------------------------------------------------
Payload(playerId, cellId, position, timeLimit) ==
    [playerId |-> playerId, cellId |-> cellId, position |-> position,
     timeLimit |-> timeLimit]

\* What the host's client sends: the lifecycle events, a cell selection
\* (complete, or with its fields missing), the manual reveal, a message of a
\* type the switch does not know and one that is not JSON.
HostMessages ==
    {Message(type, NoData) :
        type \in {"start_game", "end_game", "next_question", "reveal_answer",
                  "ping", "unparseable"}}
    \cup {Message("host_selected", Payload(Undefined, <<"cell", "A1">>, "A1", "30")),
          Message("host_selected", NoData)}

\* What a player's client sends: votes for itself, for an id that is in no
\* group, with the cell missing or not of the form cell-<position>; and a
\* host's event.
PlayerMessages ==
    {Message(type, Payload(p, c, Undefined, Undefined)) :
        type \in {"select_answer", "answer_select"},
        p \in {"p1", "px"},
        c \in {<<"cell", "A1">>}}
    \cup {Message("select_answer", Payload("p1", NoCell, Undefined, Undefined)),
          Message("select_answer", Payload("p1", <<"A1">>, Undefined, Undefined)),
          Message("answer_select", Payload("p1", NoCell, Undefined, Undefined)),
          Message("start_game", NoData)}

\* What arrives on a socket opened for a game id that is not stored.
StrayMessages ==
    {Message(type, NoData) : type \in {"start_game", "reveal_answer"}}

Messages(s) ==
    IF s = "sh" THEN HostMessages
    ELSE IF s = "s1" THEN PlayerMessages
    ELSE StrayMessages

UsedCount == Cardinality({q \in Questions : used[q]})

InboundMessage ==
    \E s \in Sockets : \E m \in Messages(s) :
        /\ m.type = "next_question" => UsedCount + InFlight("next_question") < MaxRounds
        /\ m.type = "host_selected" => timers + InFlight("host_selected") < MaxTimers
        /\ OnMessage(s, m)

Next ==
    \/ \E s \in Sockets : Connect(s)
    \/ \E s \in {"s1"} : Close(s)
    \/ InboundMessage
    \/ JoinRequest
    \/ joinGame_getGame
    \/ joinGame_addPlayerToGame
    \/ joinGame_sendGameUpdate
    \/ handleStartGame_getGame
    \/ handleStartGame_updateGameStatus
    \/ handleEndGame_getGame
    \/ handleEndGame_updateGameStatus
    \/ handleNextQuestion_getGame
    \/ handleNextQuestion_getNextQuestion
    \/ handleNextQuestion_updateCurrentQuestion
    \/ handleSelectAnswer_getGame
    \/ handleSelectAnswer_recordPlayerAnswer
    \/ checkGroupConsensus_getGroupAnswers
    \/ checkGroupConsensus_setGroupAnswer
    \/ checkGroupConsensus_getGroupCorrectAnswers
    \/ handleHostSelection
    \/ handlePlayerAnswer
    \/ handleRevealAnswer_getGame
    \/ handleRevealAnswer_recordPlayerAnswer
    \/ TimerFires

Spec == Init /\ [][Next]_vars

\* ------------------------------------------------------------------------
\* The failing-storage runs: a storage collaborator whose calls may fail
\* under the start, next-question and select-answer events.
\* ------------------------------------------------------------------------
FaultyInbound ==
    \/ \E type \in {"start_game", "next_question"} :
          /\ type = "next_question" =>
                 UsedCount + InFlight("next_question") < MaxRounds
          /\ OnMessage("sh", Message(type, NoData))
    \/ OnMessage("s1", Message("select_answer",
                               Payload("p1", <<"cell", "A1">>, Undefined, Undefined)))

NextFaults ==
    \/ \E s \in {"sh", "s1"} : Connect(s)
    \/ FaultyInbound
    \/ JoinRequest
    \/ joinGame_getGame
    \/ joinGame_addPlayerToGame
    \/ joinGame_sendGameUpdate
    \/ handleStartGame_getGame
    \/ handleStartGame_updateGameStatus
    \/ handleNextQuestion_getGame
    \/ handleNextQuestion_getNextQuestion
    \/ handleNextQuestion_updateCurrentQuestion
    \/ handleSelectAnswer_getGame
    \/ handleSelectAnswer_recordPlayerAnswer
    \/ checkGroupConsensus_getGroupAnswers
    \/ checkGroupConsensus_setGroupAnswer
    \/ checkGroupConsensus_getGroupCorrectAnswers

SpecFaults == InitFaults /\ [][NextFaults]_vars

\* ------------------------------------------------------------------------
\* The bingo runs: a game in its second round.  Two players joined (p1 in
\* g1, p2 in g2), the game was started, and in each of the BoardSize - 1
\* rounds played p1 selected the cell of the round's question, so g1 is one
\* cell short of its top row.  The host issues further questions and p1
\* votes, for the cell of the next question or for a cell already marked.
\* ------------------------------------------------------------------------
PlayedRounds == BoardSize - 1
LastRound == PlayedRounds + MaxRounds

\* The cell id cell-<position> of the cell at board index i.
CellIdAt(i) == <<"cell", createPositionGrid(BoardSize)[i]>>

InitBingo ==
    /\ status = "active"
    /\ used = [q \in Questions |-> q <= PlayedRounds]
    /\ currentQuestion = PlayedRounds
    /\ players = [g \in {"g1", "g2"} |-> IF g = "g1" THEN <<"p1">> ELSE <<"p2">>]
    /\ board = [g \in {"g1", "g2"} |->
                  [i \in 1..NumQuestions |->
                      [NewBoard([q \in Questions |-> q])[i] EXCEPT
                          !.correct = (g = "g1" /\ i <= PlayedRounds)]]]
    /\ hasBingo = [g \in {"g1", "g2"} |-> FALSE]
    /\ bingoPattern = [g \in {"g1", "g2"} |-> <<>>]
    /\ playerAnswers =
           [k \in 0..NumQuestions |->
               IF k \in 1..PlayedRounds
               THEN <<[playerId |-> "p1", groupId |-> "g1", cellId |-> CellIdAt(k)]>>
               ELSE <<>>]
    /\ InitController
    /\ faultBudget = 0

BingoInbound ==
    \/ /\ UsedCount + InFlight("next_question") < LastRound
       /\ OnMessage("sh", Message("next_question", NoData))
    \/ \E i \in {1, BoardSize} :
          OnMessage("s1", Message("select_answer",
                                  Payload("p1", CellIdAt(i), Undefined, Undefined)))

NextBingo ==
    \/ \E s \in {"sh", "s1"} : Connect(s)
    \/ \E s \in {"s1"} : Close(s)
    \/ BingoInbound
    \/ handleNextQuestion_getGame
    \/ handleNextQuestion_getNextQuestion
    \/ handleNextQuestion_updateCurrentQuestion
    \/ handleSelectAnswer_getGame
    \/ handleSelectAnswer_recordPlayerAnswer
    \/ checkGroupConsensus_getGroupAnswers
    \/ checkGroupConsensus_setGroupAnswer
    \/ checkGroupConsensus_getGroupCorrectAnswers
    \/ checkGroupConsensus_setGroupBingo

SpecBingo == InitBingo /\ [][NextBingo]_vars

\* ------------------------------------------------------------------------
\* The tally runs: an active game on its first question with eight players
\* joined, four in each group.  The players of g1 vote and re-vote, one
\* message at a time, over both protocols: select_answer (stored answers,
\* consensus on every vote) and answer_select (in-memory votes, consensus
\* on reveal).  Both handlers take the voter from the payload.  `arrivals`
\* keeps the select_answer votes in the order they were received.
\* ------------------------------------------------------------------------
Voters == <<"p1", "p3", "p5", "p7">>
TallyCells == {CellIdAt(1), CellIdAt(2)}

InitConsensus ==
    /\ status = "active"
    /\ used = [q \in Questions |-> q = 1]
    /\ currentQuestion = 1
    /\ players = [g \in {"g1", "g2"} |->
                    IF g = "g1" THEN Voters ELSE <<"p2", "p4", "p6", "p8">>]
    /\ board = [g \in {"g1", "g2"} |-> NewBoard([q \in Questions |-> q])]
    /\ hasBingo = [g \in {"g1", "g2"} |-> FALSE]
    /\ bingoPattern = [g \in {"g1", "g2"} |-> <<>>]
    /\ playerAnswers = [k \in 0..NumQuestions |-> <<>>]
    /\ gameAnswers = [present |-> FALSE, groups |-> <<>>]
    /\ gameConnections = (<<TheGame, "host">> :> "sh") @@ (<<TheGame, "p1">> :> "s1")
    /\ sockState = [s \in Sockets |-> IF s \in {"sh", "s1"} THEN "open" ELSE "new"]
    /\ tasks = EmptyBag
    /\ timers = 0
    /\ sent = {}
    /\ arrivals = <<>>
    /\ other = NoOtherGame
    /\ failing = {}
    /\ call = NoCall
    /\ faultBudget = 0

\* A select_answer vote of one of the first two players of g1 is received.
CastVote ==
    \E p \in {Voters[1], Voters[2]} : \E c \in TallyCells :
        /\ tasks = EmptyBag
        /\ Len(arrivals) < MaxVotes
        /\ sockState["s1"] = "open"
        /\ tasks' = Spawn(Task("select_answer", "ws", "s1", TheGame,
                               Payload(p, c, Undefined, Undefined)))
        /\ arrivals' = Append(arrivals, <<p, c>>)
        /\ sent' = {}
        /\ UNCHANGED <<storageVars, gameAnswers, gameConnections, sockState,
                       timers, faultBudget, other, failing, call>>

\* An answer_select vote is received.  The players are interchangeable: the
\* first votes are taken in join order, re-votes in any order.
CastLiveVote ==
    \E i \in 1..Len(Voters) : \E c \in TallyCells :
        /\ tasks = EmptyBag
        /\ \A j \in 1..(i - 1) :
               \E k \in 1..Len(GroupVotes("g1")) : GroupVotes("g1")[k][1] = Voters[j]
        /\ OnMessage("s1", Message("answer_select",
                                   Payload(Voters[i], c, Undefined, Undefined)))

RevealRequest ==
    /\ tasks = EmptyBag
    /\ OnMessage("sh", Message("reveal_answer", NoData))

NextConsensus ==
    \/ CastVote
    \/ CastLiveVote
    \/ RevealRequest
    \/ handleSelectAnswer_getGame
    \/ handleSelectAnswer_recordPlayerAnswer
    \/ checkGroupConsensus_getGroupAnswers
    \/ checkGroupConsensus_setGroupAnswer
    \/ checkGroupConsensus_getGroupCorrectAnswers
    \/ handlePlayerAnswer
    \/ handleRevealAnswer_getGame
    \/ handleRevealAnswer_recordPlayerAnswer

SpecConsensus == InitConsensus /\ [][NextConsensus]_vars

\* ------------------------------------------------------------------------
\* The reconnection runs: p1 has joined the waiting game; its client opens a
\* socket and later a second one on the same path, either may close, and
\* the host starts and ends the game.
\* ------------------------------------------------------------------------
InitReconnect ==
    /\ status = "waiting"
    /\ used = [q \in Questions |-> FALSE]
    /\ currentQuestion = 0
    /\ players = [g \in {"g1", "g2"} |-> IF g = "g1" THEN <<"p1">> ELSE <<>>]
    /\ board = [g \in {"g1", "g2"} |-> NewBoard([q \in Questions |-> q])]
    /\ hasBingo = [g \in {"g1", "g2"} |-> FALSE]
    /\ bingoPattern = [g \in {"g1", "g2"} |-> <<>>]
    /\ playerAnswers = [k \in 0..NumQuestions |-> <<>>]
    /\ gameAnswers = [present |-> FALSE, groups |-> <<>>]
    /\ gameConnections = <<>>
    /\ sockState = [s \in {"sh", "s1"} \cup Reconnects |-> "new"]
    /\ tasks = EmptyBag
    /\ timers = 0
    /\ sent = {}
    /\ arrivals = <<>>
    /\ other = NoOtherGame
    /\ failing = {}
    /\ call = NoCall
    /\ faultBudget = 0

\* The client's second socket is opened after its first.
Reconnect ==
    \E s \in Reconnects : sockState["s1"] # "new" /\ Connect(s)

HostLifecycleMessage ==
    \E type \in {"start_game", "end_game"} : OnMessage("sh", Message(type, NoData))

NextReconnect ==
    \/ \E s \in {"sh", "s1"} : Connect(s)
    \/ Reconnect
    \/ \E s \in {"s1"} \cup Reconnects : Close(s)
    \/ HostLifecycleMessage
    \/ handleStartGame_getGame
    \/ handleStartGame_updateGameStatus
    \/ handleEndGame_getGame
    \/ handleEndGame_updateGameStatus

SpecReconnect == InitReconnect /\ [][NextReconnect]_vars

\* ------------------------------------------------------------------------
\* The concurrent-vote runs: the tally runs' game, with the select_answer
\* votes of the first three players of g1 received while earlier ones are
\* still being handled.  The message handler is async and nothing queues
\* the events of a connection: every vote received starts its handler at
\* once.  Two votes in flight differ in voter or cell.
\* ------------------------------------------------------------------------
CastConcurrentVote ==
    \E p \in {Voters[1], Voters[2], Voters[3]} : \E c \in TallyCells :
        /\ Room
        /\ Len(arrivals) < MaxVotes
        /\ sockState["s1"] = "open"
        /\ \A t \in Running : t.playerId # p \/ t.cellId # c
        /\ tasks' = Spawn(Task("select_answer", "ws", "s1", TheGame,
                               Payload(p, c, Undefined, Undefined)))
        /\ arrivals' = Append(arrivals, <<p, c>>)
        /\ sent' = {}
        /\ UNCHANGED <<storageVars, gameAnswers, gameConnections, sockState,
                       timers, faultBudget, other, failing, call>>

NextRace ==
    \/ CastConcurrentVote
    \/ handleSelectAnswer_getGame
    \/ handleSelectAnswer_recordPlayerAnswer
    \/ checkGroupConsensus_getGroupAnswers
    \/ checkGroupConsensus_setGroupAnswer
    \/ checkGroupConsensus_getGroupCorrectAnswers

SpecRace == InitConsensus /\ [][NextRace]_vars

\* ------------------------------------------------------------------------
\* The two-game runs: next to the game G of the other runs (active on its
\* first question, p1 in g1 and p2 in g2, host connected) a second game H
\* is stored, with its host and a player connected.  H is waiting, or active
\* with a vote in flight, a stored answer and a marked cell.  Every storage
\* call and every lookup in gameConnections and gameAnswers takes the game
\* id of the handler's own connection: the handlers of G's events act on
\* G's entries, and `other` is what the same maps hold under H's id.
\* ------------------------------------------------------------------------
OtherSockets == {"th", "t1"}

OtherGameStates ==
    { [status |-> "waiting", used |-> {}, currentQuestion |-> 0,
       players |-> <<"q1">>, answers |-> <<>>, votes |-> <<>>,
       correct |-> {}, hasBingo |-> FALSE],
      [status |-> "active", used |-> {1}, currentQuestion |-> 1,
       players |-> <<"q1">>, answers |-> <<<<"q1", CellIdAt(1)>>>>,
       votes |-> <<<<"q1", CellIdAt(2)>>>>,
       correct |-> {"A1"}, hasBingo |-> FALSE] }

InitTwoGames ==
    /\ status = "active"
    /\ used = [q \in Questions |-> q = 1]
    /\ currentQuestion = 1
    /\ players = [g \in {"g1", "g2"} |-> IF g = "g1" THEN <<"p1">> ELSE <<"p2">>]
    /\ board = [g \in {"g1", "g2"} |-> NewBoard([q \in Questions |-> q])]
    /\ hasBingo = [g \in {"g1", "g2"} |-> FALSE]
    /\ bingoPattern = [g \in {"g1", "g2"} |-> <<>>]
    /\ playerAnswers = [k \in 0..NumQuestions |-> <<>>]
    /\ gameAnswers = [present |-> FALSE, groups |-> <<>>]
    /\ gameConnections = (<<TheGame, "host">> :> "sh")
                         @@ (<<OtherGame, "host">> :> "th")
                         @@ (<<OtherGame, "q1">> :> "t1")
    /\ sockState = [s \in {"sh", "s1"} \cup OtherSockets |->
                      IF s = "s1" THEN "new" ELSE "open"]
    /\ tasks = EmptyBag
    /\ timers = 0
    /\ sent = {}
    /\ arrivals = <<>>
    /\ other \in OtherGameStates
    /\ failing = {}
    /\ call = NoCall
    /\ faultBudget = 0

\* What G's host and p1 send while H is there.
TwoGamesInbound ==
    \/ \E type \in {"end_game", "next_question", "reveal_answer"} :
          /\ type = "next_question" =>
                 UsedCount + InFlight("next_question") < 1 + MaxRounds
          /\ OnMessage("sh", Message(type, NoData))
    \/ /\ timers + InFlight("host_selected") < MaxTimers
       /\ OnMessage("sh", Message("host_selected",
                                  Payload(Undefined, CellIdAt(1), "A1", "30")))
    \/ \E type \in {"select_answer", "answer_select"} :
          OnMessage("s1", Message(type, Payload("p1", CellIdAt(1), Undefined, Undefined)))

NextTwoGames ==
    \/ \E s \in {"s1"} : Connect(s)
    \/ \E s \in {"s1"} \cup OtherSockets : Close(s)
    \/ TwoGamesInbound
    \/ handleEndGame_getGame
    \/ handleEndGame_updateGameStatus
    \/ handleNextQuestion_getGame
    \/ handleNextQuestion_getNextQuestion
    \/ handleNextQuestion_updateCurrentQuestion
    \/ handleSelectAnswer_getGame
    \/ handleSelectAnswer_recordPlayerAnswer
    \/ checkGroupConsensus_getGroupAnswers
    \/ checkGroupConsensus_setGroupAnswer
    \/ checkGroupConsensus_getGroupCorrectAnswers
    \/ handleHostSelection
    \/ handlePlayerAnswer
    \/ handleRevealAnswer_getGame
    \/ handleRevealAnswer_recordPlayerAnswer
    \/ TimerFires

SpecTwoGames == InitTwoGames /\ [][NextTwoGames]_vars

\* ------------------------------------------------------------------------
\* The failing-transport runs: p1 has joined the waiting game; the host and
\* p1 connect, the host starts the game and issues questions, and the
\* transport of one open socket may break, so that connection.send throws
\* on it while its readyState is still OPEN.
\* ------------------------------------------------------------------------
WriteFails ==
    \E s \in {"sh", "s1"} :
        /\ sockState[s] = "open"
        /\ failing = {}
        /\ failing' = {s}
        /\ sent' = {}
        /\ UNCHANGED <<storageVars, gameAnswers, gameConnections, sockState, tasks,
                       timers, faultBudget, arrivals, other, call>>

TransportInbound ==
    \E type \in {"start_game", "next_question"} :
        /\ type = "next_question" =>
               UsedCount + InFlight("next_question") < MaxRounds
        /\ OnMessage("sh", Message(type, NoData))

NextTransport ==
    \/ \E s \in {"sh", "s1"} : Connect(s)
    \/ \E s \in {"s1"} : Close(s)
    \/ WriteFails
    \/ TransportInbound
    \/ handleStartGame_getGame
    \/ handleStartGame_updateGameStatus
    \/ handleNextQuestion_getGame
    \/ handleNextQuestion_getNextQuestion
    \/ handleNextQuestion_updateCurrentQuestion

SpecTransport == InitReconnect /\ [][NextTransport]_vars

\* ------------------------------------------------------------------------
\* The join runs: players join over HTTP while the host connects, starts
\* and ends the game and issues questions.
\* ------------------------------------------------------------------------
JoinInbound ==
    \E type \in {"start_game", "end_game", "next_question"} :
        /\ type = "next_question" =>
               UsedCount + InFlight("next_question") < MaxRounds
        /\ OnMessage("sh", Message(type, NoData))

NextJoin ==
    \/ \E s \in {"sh", "s1"} : Connect(s)
    \/ JoinInbound
    \/ JoinRequest
    \/ joinGame_getGame
    \/ joinGame_addPlayerToGame
    \/ joinGame_sendGameUpdate
    \/ handleStartGame_getGame
    \/ handleStartGame_updateGameStatus
    \/ handleEndGame_getGame
    \/ handleEndGame_updateGameStatus
    \/ handleNextQuestion_getGame
    \/ handleNextQuestion_getNextQuestion
    \/ handleNextQuestion_updateCurrentQuestion

SpecJoin == Init /\ [][NextJoin]_vars

\* ------------------------------------------------------------------------
\* The board runs: a board of each allowed size is laid out by
\* createPositionGrid, and checkBingoPattern is called with the positions
\* marked on it.
\* ------------------------------------------------------------------------
BoardSizes == 3..6          \* boardSize: min(3), max(6)
MaxLines == 2               \* whole lines marked on a board
MaxCells == 1               \* single positions marked on a board
MaxHoles == 1               \* positions taken out of the marked ones again

\* The positions a caller may pass: those of the board and two beyond it, one
\* past its last row and one past its last column.
Passable(size) ==
    createPositionGrid(size) \o <<PositionLabel(size, 0), PositionLabel(0, size)>>

\* The array a caller passes for a set of marked positions, its first entry
\* once more at the end when the caller repeats one.
MarkedArray(size, marked, repeat) ==
    LET listed == SelectSeq(Passable(size), LAMBDA p : p \in marked)
    IN  IF repeat /\ listed # <<>> THEN listed \o <<listed[1]>> ELSE listed

\* The rows, the columns and the two diagonals of a laid-out board, as sets
\* of its positions.
BoardLines(positions, size) ==
    LET idx == 0..(size - 1)
        at(r, c) == positions[r * size + c + 1]
    IN  {{at(i, j) : j \in idx} : i \in idx}
        \cup {{at(i, j) : i \in idx} : j \in idx}
        \cup {{at(i, i) : i \in idx}, {at(i, size - 1 - i) : i \in idx}}

CheckedCall(size, marked, repeat, lines, cells, holes) ==
    [boardSize |-> size,
     positions |-> createPositionGrid(size),
     marked |-> marked,
     repeat |-> repeat,
     lines |-> lines, cells |-> cells, holes |-> holes,
     pattern |-> checkBingoPattern(MarkedArray(size, marked, repeat), size)]

InitBoard ==
    /\ InitStorage(Len(GroupIds))
    /\ gameAnswers = [present |-> FALSE, groups |-> <<>>]
    /\ gameConnections = <<>>
    /\ sockState = [s \in Sockets |-> "new"]
    /\ tasks = EmptyBag
    /\ timers = 0
    /\ faultBudget = 0
    /\ sent = {}
    /\ arrivals = <<>>
    /\ other = NoOtherGame
    /\ failing = {}
    /\ \E size \in BoardSizes, repeat \in BOOLEAN :
           call = CheckedCall(size, {}, repeat, 0, 0, 0)

BoardUnchanged ==
    UNCHANGED <<storageVars, gameAnswers, gameConnections, sockState, tasks,
                timers, faultBudget, sent, arrivals, other, failing>>

\* The next call has a whole line more among its marked positions.
MarkLine ==
    /\ call.lines < MaxLines
    /\ \E l \in BoardLines(call.positions, call.boardSize) :
           /\ ~(l \subseteq call.marked)
           /\ call' = CheckedCall(call.boardSize, call.marked \cup l, call.repeat,
                                  call.lines + 1, call.cells, call.holes)
    /\ BoardUnchanged

\* The next call has one more position among its marked ones.
MarkCell ==
    /\ call.cells < MaxCells
    /\ \E p \in SeqToSet(Passable(call.boardSize)) \ call.marked :
           call' = CheckedCall(call.boardSize, call.marked \cup {p}, call.repeat,
                               call.lines, call.cells + 1, call.holes)
    /\ BoardUnchanged

\* The next call has one position fewer among its marked ones.
ClearCell ==
    /\ call.holes < MaxHoles
    /\ \E p \in call.marked :
           call' = CheckedCall(call.boardSize, call.marked \ {p}, call.repeat,
                               call.lines, call.cells, call.holes + 1)
    /\ BoardUnchanged

NextBoard ==
    \/ MarkLine
    \/ MarkCell
    \/ ClearCell

SpecBoard == InitBoard /\ [][NextBoard]_vars

\* ------------------------------------------------------------------------
\* The attribution runs: question 1 is current, p1 (group g1), p2 (group g2)
\* and the host connect; each connection sends votes whose payload names p1
\* or p2.
\* ------------------------------------------------------------------------
AttributionSockets == {"sh", "s1", "s2"}

InitAttribution ==
    /\ status = "active"
    /\ used = [q \in Questions |-> q = 1]
    /\ currentQuestion = 1
    /\ players = [g \in {"g1", "g2"} |-> IF g = "g1" THEN <<"p1">> ELSE <<"p2">>]
    /\ board = [g \in {"g1", "g2"} |-> NewBoard([q \in Questions |-> q])]
    /\ hasBingo = [g \in {"g1", "g2"} |-> FALSE]
    /\ bingoPattern = [g \in {"g1", "g2"} |-> <<>>]
    /\ playerAnswers = [k \in 0..NumQuestions |-> <<>>]
    /\ gameAnswers = [present |-> FALSE, groups |-> <<>>]
    /\ gameConnections = <<>>
    /\ sockState = [s \in AttributionSockets |-> "new"]
    /\ tasks = EmptyBag
    /\ timers = 0
    /\ sent = {}
    /\ arrivals = <<>>
    /\ other = NoOtherGame
    /\ failing = {}
    /\ call = NoCall
    /\ faultBudget = 0

AttributionInbound ==
    \E s \in AttributionSockets, type \in {"select_answer", "answer_select"},
       p \in {"p1", "p2"} :
        OnMessage(s, Message(type, Payload(p, CellIdAt(1), "A1", Undefined)))

NextAttribution ==
    \/ \E s \in AttributionSockets : Connect(s)
    \/ AttributionInbound
    \/ handleSelectAnswer_getGame
    \/ handleSelectAnswer_recordPlayerAnswer
    \/ checkGroupConsensus_getGroupAnswers
    \/ checkGroupConsensus_setGroupAnswer
    \/ checkGroupConsensus_getGroupCorrectAnswers
    \/ handlePlayerAnswer

SpecAttribution == InitAttribution /\ [][NextAttribution]_vars

\* ------------------------------------------------------------------------
\* The question runs: the game has been started, the host is connected and
\* keeps sending next_question; no storage call fails.  Every handler that
\* is suspended at a storage call is resumed, and the host's next message
\* arrives.
\* ------------------------------------------------------------------------
InitQuestions ==
    /\ status = "active"
    /\ used = [q \in Questions |-> FALSE]
    /\ currentQuestion = 0
    /\ players = [g \in {"g1", "g2"} |-> IF g = "g1" THEN <<"p1">> ELSE <<>>]
    /\ board = [g \in {"g1", "g2"} |-> NewBoard([q \in Questions |-> q])]
    /\ hasBingo = [g \in {"g1", "g2"} |-> FALSE]
    /\ bingoPattern = [g \in {"g1", "g2"} |-> <<>>]
    /\ playerAnswers = [k \in 0..NumQuestions |-> <<>>]
    /\ gameAnswers = [present |-> FALSE, groups |-> <<>>]
    /\ gameConnections = (<<TheGame, "host">> :> "sh")
    /\ sockState = [s \in Sockets |-> IF s = "sh" THEN "open" ELSE "new"]
    /\ tasks = EmptyBag
    /\ timers = 0
    /\ sent = {}
    /\ arrivals = <<>>
    /\ other = NoOtherGame
    /\ failing = {}
    /\ call = NoCall
    /\ faultBudget = 0

IssueNextQuestion == OnMessage("sh", Message("next_question", NoData))

NextQuestions ==
    \/ IssueNextQuestion
    \/ handleNextQuestion_getGame
    \/ handleNextQuestion_getNextQuestion
    \/ handleNextQuestion_updateGameStatus
    \/ handleNextQuestion_updateCurrentQuestion

SpecQuestions ==
    /\ InitQuestions
    /\ [][NextQuestions]_vars
    /\ WF_vars(IssueNextQuestion)
    /\ WF_vars(handleNextQuestion_getGame)
    /\ WF_vars(handleNextQuestion_getNextQuestion)
    /\ WF_vars(handleNextQuestion_updateGameStatus)
    /\ WF_vars(handleNextQuestion_updateCurrentQuestion)

\* ------------------------------------------------------------------------
\* The database join runs: joinGame over DatabaseStorage.addPlayerToGame,
\* which reads the game, counts each group's players with one query per
\* group and then inserts the player.
\* ------------------------------------------------------------------------
CountPc == <<"countPlayers1", "countPlayers2">>   \* the count query of each group
NoCount == Len(PlayerIds) + 1                     \* minPlayerCount = Infinity

\* db.select().from(games), the status check and db.select().from(groups)
DatabaseJoin_selectGame ==
    \E t \in Running :
        /\ t.kind = "join" /\ t.pc = "addPlayerToGame"
        /\ IF status # "waiting"
           THEN Abort(t)
           ELSE /\ tasks' = Move(t, [t EXCEPT !.pc = CountPc[1],
                                              !.group = GroupOrder[1],
                                              !.q = NoCount])
                /\ sent' = {}
        /\ UNCHANGED <<storageVars, gameAnswers, gameConnections, arrivals, other,
                       failing, call, sockState, timers, faultBudget>>

\* One turn of the loop: the count query of a group, then the comparison
\* with the smallest count seen so far.
DatabaseJoin_countPlayers ==
    \E t \in Running : \E i \in 1..Len(GroupOrder) :
        /\ t.kind = "join" /\ t.pc = CountPc[i]
        /\ LET count == Len(players[GroupOrder[i]])
               nextPc == IF i < Len(GroupOrder) THEN CountPc[i + 1] ELSE "insertPlayer"
           IN  tasks' = Move(t, IF count < t.q
                                THEN [t EXCEPT !.pc = nextPc, !.group = GroupOrder[i],
                                               !.q = count]
                                ELSE [t EXCEPT !.pc = nextPc])
        /\ sent' = {}
        /\ UNCHANGED <<storageVars, gameAnswers, gameConnections, arrivals, other,
                       failing, call, sockState, timers, faultBudget>>

\* db.insert(players) into the group chosen by the loop; back in joinGame,
\* player_joined goes to every open connection.
DatabaseJoin_insertPlayer ==
    \E t \in Running :
        /\ t.kind = "join" /\ t.pc = "insertPlayer"
        /\ players' = [players EXCEPT ![t.group] =
                          Append(@, PlayerIds[PlayerCount + 1])]
        /\ tasks' = Move(t, At(t, "sendGameUpdate"))
        /\ sent' = Broadcast(TheGame, "player_joined", <<t.group>>)
        /\ UNCHANGED <<status, used, currentQuestion, board, hasBingo,
                       bingoPattern, playerAnswers, gameAnswers, gameConnections,
                       arrivals, other, failing, call, sockState, timers, faultBudget>>

NextDatabaseJoin ==
    \/ \E s \in {"sh", "s1"} : Connect(s)
    \/ OnMessage("sh", Message("start_game", NoData))
    \/ handleStartGame_getGame
    \/ handleStartGame_updateGameStatus
    \/ JoinRequest
    \/ joinGame_getGame
    \/ DatabaseJoin_selectGame
    \/ DatabaseJoin_countPlayers
    \/ DatabaseJoin_insertPlayer
    \/ joinGame_sendGameUpdate

SpecDatabaseJoin == Init /\ [][NextDatabaseJoin]_vars

\* ------------------------------------------------------------------------
\* Properties
\* ------------------------------------------------------------------------
\* The step handles task t: one copy of it leaves the bag as it was.
Handled(t) == CopiesIn(t, tasks') < CopiesIn(t, tasks)

\* The step ends the handler of task t.
Ended(t) == tasks' = Finish(t)

\* C1: for every interleaving of the WebSocket start_game / end_game /
\* next_question events and their HTTP counterparts, the stored status only
\* changes waiting -> active or active -> completed, and nothing changes it
\* once it is completed.
C1_StatusOnlyMovesForward ==
    [][\/ status' = status
       \/ status = "waiting" /\ status' = "active"
       \/ status = "active" /\ status' = "completed"]_vars

\* C2: whenever the status becomes completed (end_game, or next_question with
\* every question used, over the WebSocket or the HTTP route), every open
\* connection registered for the game is sent game_over in that step.
C2_CompletionSendsGameOver ==
    [][(status # "completed" /\ status' = "completed") =>
          \A k \in OpenKeys(TheGame) :
              \E m \in sent' : m.to = gameConnections[k] /\ m.type = "game_over"]_vars

\* An inbound event's handler at its first await, on the WebSocket path.
AtEntry(t) == t.via = "ws" /\ t.pc = "getGame" /\ t.kind \in HandledTypes

\* The status the handler of an event requires.
WrongStatus(t) ==
    /\ GameExists(t.gid)
    /\ \/ t.kind = "start_game" /\ status # "waiting"
       \/ t.kind # "start_game" /\ status # "active"

ErrorTo(s) == [to |-> s, type |-> "error", info |-> <<>>]

\* C3: a select_answer naming a player id that is in no group of the game is
\* answered with an error on the originating connection only: no other
\* connection is sent anything, and no stored answer, in-memory vote, cell
\* flag or bingo flag changes.
C3_NonMemberSelectIsRejected ==
    [][\A t \in Running :
          (/\ AtEntry(t) /\ t.kind = "select_answer"
           /\ \A g \in Groups : t.playerId \notin SeqToSet(players[g])
           /\ Handled(t))
          => /\ Ended(t)
             /\ sent' \subseteq {ErrorTo(t.origin)}
             /\ sockState[t.origin] = "open" => ErrorTo(t.origin) \in sent'
             /\ UNCHANGED <<playerAnswers, gameAnswers, board, hasBingo,
                            bingoPattern>>]_vars

\* A select_answer for an id that is in no group is in flight on an active
\* game that has a member, with the sender's and the host's connections open.
C3_Witness ==
    \E t \in Running :
        /\ AtEntry(t) /\ t.kind = "select_answer"
        /\ t.playerId \notin AllPlayers
        /\ AllPlayers # {}
        /\ status = "active"
        /\ sockState[t.origin] = "open"
        /\ \E k \in OpenKeys(TheGame) : gameConnections[k] # t.origin
        /\ ENABLED handleSelectAnswer_getGame

\* C4: for every inbound event type, a precondition violation (game not
\* found, game not in the required status, player in no group) is answered
\* with an error message on the originating connection.
C4_PreconditionViolationAnswered ==
    [][\A t \in Running :
          (/\ AtEntry(t)
           /\ \/ ~GameExists(t.gid)
              \/ WrongStatus(t)
              \/ /\ t.kind \in {"select_answer", "answer_select"}
                 /\ t.playerId \notin AllPlayers
           /\ sockState[t.origin] = "open"
           /\ Handled(t))
          => ErrorTo(t.origin) \in sent']_vars

\* C5: an event handled while the game is in the wrong lifecycle status ends
\* there and mutates nothing: status, used flags, current question, stored
\* answers, in-memory votes, cell flags and bingo flags are unchanged.
C5_WrongStatusMutatesNothing ==
    [][\A t \in Running :
          (t.pc = "getGame" /\ t.kind \in HandledTypes /\ WrongStatus(t)
             /\ Handled(t))
          => /\ Ended(t)
             /\ UNCHANGED <<status, used, currentQuestion, playerAnswers,
                            gameAnswers, board, hasBingo, bingoPattern>>]_vars

\* start_game is in flight on a game that is already active.
C5_Witness ==
    \E t \in Running :
        /\ AtEntry(t) /\ t.kind = "start_game" /\ GameExists(t.gid)
        /\ status = "active"
        /\ ENABLED handleStartGame_getGame

\* A handler's payload lacks a field its event requires.
Malformed(t) ==
    \/ /\ t.kind = "host_selected"
       /\ (t.cellId = NoCell \/ t.position = Undefined \/ t.timeLimit = Undefined)
    \/ /\ t.kind \in {"select_answer", "answer_select"}
       /\ (t.playerId = Undefined \/ t.cellId = NoCell)

\* C6: a malformed inbound message (here: one that reaches its handler with a
\* required field missing, on a stored game in the status the event needs)
\* is answered with an error on the originating connection and otherwise
\* dropped: no state changes, nothing goes to other connections, no timer is
\* scheduled.
C6_MalformedMessageDropped ==
    [][\A t \in Running :
          (/\ AtEntry(t) /\ Malformed(t)
           /\ GameExists(t.gid) /\ ~WrongStatus(t)
           /\ Handled(t))
          => /\ Ended(t)
             /\ sent' \subseteq {ErrorTo(t.origin)}
             /\ sockState[t.origin] = "open" => ErrorTo(t.origin) \in sent'
             /\ UNCHANGED <<storageVars, gameAnswers, timers>>]_vars

\* C8: when the handler of a reveal_answer ends on an active game, every
\* group that had an in-flight vote for a cell has its consensus among the
\* stored answers, the in-flight votes of every group are empty, and the
\* refreshed game_update has gone to the open host connection.
C8_RevealAppliesAndClears ==
    [][\A t \in Running :
          (/\ t.kind = "reveal_answer" /\ GameExists(t.gid)
           /\ status = "active"
           /\ Handled(t) /\ Ended(t))
          => /\ \A g \in Groups :
                    (GroupVotes(g) # <<>> /\ RevealConsensus(GroupVotes(g)) # NoCell)
                    => \E i \in 1..Len(playerAnswers'[currentQuestion]) :
                           /\ playerAnswers'[currentQuestion][i].groupId = g
                           /\ playerAnswers'[currentQuestion][i].cellId =
                                  RevealConsensus(GroupVotes(g))
             /\ \A g \in DOMAIN gameAnswers'.groups : gameAnswers'.groups[g] = <<>>
             /\ \A k \in OpenKeys(TheGame) :
                    k[2] = "host" =>
                        \E m \in sent' : m.to = gameConnections[k]
                                         /\ m.type = "game_update"]_vars

\* C9: once a manual reveal_answer has been handled on the active game, the
\* auto-reveal timer started by host_selected is cancelled: none is pending.
C9_ManualRevealCancelsTimer ==
    [][\A t \in Running :
          (/\ t.kind = "reveal_answer" /\ t.via = "ws" /\ GameExists(t.gid)
           /\ status = "active"
           /\ Handled(t) /\ Ended(t))
          => timers' = 0]_vars

\* The in-memory votes of the game are as a reveal's clear leaves them.
VotesCleared == gameAnswers = [present |-> TRUE, groups |-> <<>>]

\* No group has a vote in flight.
NoVotes == \A g \in Groups : GroupVotes(g) = <<>>

\* C10: a reveal handled when the votes have been cleared (no group has a
\* vote in flight) is a no-op: the handler ends at once, no cell flag, bingo
\* flag or stored answer changes, and no in-flight vote appears.
C10_SecondRevealIsNoOp ==
    [][\A t \in Running :
          (/\ t.kind = "reveal_answer" /\ t.pc = "getGame"
           /\ NoVotes
           /\ Handled(t))
          => /\ Ended(t)
             /\ UNCHANGED <<board, hasBingo, bingoPattern, playerAnswers>>
             /\ NoVotes']_vars

\* A reveal is in flight on the active game after an earlier reveal cleared
\* the votes that host_selected had opened.
C10_Witness ==
    \E t \in Running :
        /\ t.kind = "reveal_answer" /\ t.pc = "getGame" /\ GameExists(t.gid)
        /\ status = "active"
        /\ VotesCleared
        /\ ENABLED handleRevealAnswer_getGame

\* The step is one in which a storage call failed.
StorageCallFailed == faultBudget' < faultBudget

\* C7: when a storage call fails while an inbound event is handled, an error
\* goes to the originating connection, the status is unchanged, and the
\* event leaves no side effect: the question it marked used is current or
\* not used, and the vote it recorded is not left without its consensus.
C7_StorageFailureLeavesNoEffect ==
    [][StorageCallFailed =>
          \A t \in Running :
              (t.via = "ws" /\ t.kind \in HandledTypes /\ Handled(t))
              => /\ sockState[t.origin] = "open" => ErrorTo(t.origin) \in sent'
                 /\ status' = status
                 /\ (t.kind = "next_question" /\ t.q # 0)
                    => (~used'[t.q] \/ currentQuestion' = t.q)
                 /\ (t.kind = "select_answer"
                     /\ t.pc \in {"getGroupAnswers", "setGroupAnswer"})
                    => \A i \in 1..Len(playerAnswers'[currentQuestion]) :
                           playerAnswers'[currentQuestion][i].playerId # t.playerId]_vars

\* The complete line among a group's correct cells, <<>> when there is none.
Line(g) == checkBingoPattern(getGroupCorrectAnswers(g), BoardSize)

\* The sockets open on a game's path.
OpenSockets(gid) ==
    {s \in DOMAIN sockState : SockGame(s) = gid /\ sockState[s] = "open"}

\* C11: once a group's hasBingo is true it is true in every later state of
\* the game, whatever events follow.
C11_BingoIsPermanent ==
    [][\A g \in Groups : hasBingo[g] => hasBingo'[g]]_vars

\* g1 has its bingo and a later consensus has unmarked a cell of its line.
C11_Witness == hasBingo["g1"] /\ Line("g1") = <<>>

\* C12: for each group setGroupBingo is called and bingo_achieved is
\* broadcast at most once per game: neither happens for a group whose
\* hasBingo is already true, and its recorded pattern does not change.
C12_BingoDetectedOnce ==
    [][\A g \in Groups :
          hasBingo[g]
          => /\ \A t \in Running :
                    ~(t.pc = "setGroupBingo" /\ t.group = g /\ Handled(t))
             /\ \A m \in sent' : ~(m.type = "bingo_achieved" /\ m.info[1] = g)
             /\ bingoPattern'[g] = bingoPattern[g]]_vars

C14_OnlyConsensusCellMarked ==
    tasks = EmptyBag
    => \A g \in Groups : \A i \in 1..Len(board[g]) :
          (board[g][i].correct /\ board[g][i].answer = currentQuestion)
          => MostCommonAnswer(CellsOf(getGroupAnswers(g)))
                = <<"cell", board[g][i].position>>

\* The tally rule over the votes received for a group, in arrival order: a
\* voter's latest vote is the one that counts and the choice with the most
\* voters wins.  Among tied choices the one whose first supporting vote
\* arrived earliest wins: Earliest(votes, c) is that position, taken over
\* every vote received for c and over the votes for c that still count.
ArrivedFor(g) == SelectSeq(arrivals, LAMBDA v : FindPlayerGroup(v[1]) = g)
IsLatest(votes, i) == \A j \in (i + 1)..Len(votes) : votes[j][1] # votes[i][1]
Support(votes, c) ==
    Cardinality({i \in 1..Len(votes) : votes[i][2] = c /\ IsLatest(votes, i)})
FirstSelected(votes, c) ==
    CHOOSE i \in 1..Len(votes) :
        votes[i][2] = c /\ \A j \in 1..(i - 1) : votes[j][2] # c
FirstCounted(votes, c) ==
    CHOOSE i \in 1..Len(votes) :
        /\ votes[i][2] = c /\ IsLatest(votes, i)
        /\ \A j \in 1..(i - 1) : ~(votes[j][2] = c /\ IsLatest(votes, j))
EarliestMajorities(votes) ==
    LET live == {c \in {votes[i][2] : i \in 1..Len(votes)} : Support(votes, c) > 0}
        top == {c \in live : \A d \in live : Support(votes, c) >= Support(votes, d)}
    IN  {c \in top : \/ \A d \in top : FirstSelected(votes, c) <= FirstSelected(votes, d)
                     \/ \A d \in top : FirstCounted(votes, c) <= FirstCounted(votes, d)}

\* C15: on the select_answer path the consensus checkGroupConsensus chooses
\* is the choice with the most current votes and, among tied choices, the one
\* whose first supporting vote by any voter arrived earliest (whether that is
\* taken over all the votes received or over the votes that still count).
C15_ConsensusIsEarliestMajority ==
    [][\A t \in Running :
          (t.kind = "select_answer" /\ t.pc = "getGroupAnswers" /\ Handled(t)
             /\ ArrivedFor(t.group) # <<>>)
          => \E t2 \in BagToSet(tasks') :
                 /\ t2.pc = "setGroupAnswer"
                 /\ t2.answer \in EarliestMajorities(ArrivedFor(t.group))]_vars

\* C16: on the reveal_answer path the consensus handleRevealAnswer chooses
\* for a group is the choice the select_answer path's rule gives for the same
\* votes: the highest count, ties broken by the first vote for the choice.
C16_RevealAgreesWithSelect ==
    [][\A t \in Running :
          (t.kind = "reveal_answer" /\ t.pc = "getGame" /\ Handled(t))
          => \A t2 \in BagToSet(tasks') :
                 (t2.kind = "reveal_answer" /\ t2.pc = "recordPlayerAnswer")
                 => t2.answer =
                      MostCommonAnswer(VotedCells(GroupVotes(t2.group)))]_vars

\* The voters of a list of stored answers, and of a group's in-memory votes.
AnswerVoters(answers) == {answers[i].playerId : i \in 1..Len(answers)}
LiveVoters(votes) == {votes[i][1] : i \in 1..Len(votes)}

\* C17: every player contributes exactly one vote, the most recent, to the
\* group's tally, in the stored answers and in the in-memory votes: the
\* per-choice counts of a tally sum to its number of entries, which never
\* exceeds the number of distinct voters, and the step that records a vote
\* leaves the voter's one entry at the choice just made.
C17_OneVotePerPlayer ==
    /\ [](/\ \A k \in DOMAIN playerAnswers :
                Len(playerAnswers[k]) <= Cardinality(AnswerVoters(playerAnswers[k]))
          /\ \A g \in Groups :
                Len(GroupVotes(g)) <= Cardinality(LiveVoters(GroupVotes(g))))
    /\ [][\A t \in Running :
             /\ (t.kind = "select_answer" /\ t.pc = "recordPlayerAnswer"
                  /\ Handled(t) /\ ~Ended(t))
                => \A i \in 1..Len(playerAnswers'[currentQuestion]) :
                       playerAnswers'[currentQuestion][i].playerId = t.playerId
                       => playerAnswers'[currentQuestion][i].cellId = t.cellId
             /\ (t.kind = "answer_select" /\ Handled(t)
                  /\ gameAnswers' # gameAnswers)
                => \A g \in DOMAIN gameAnswers'.groups :
                     \A i \in 1..Len(gameAnswers'.groups[g]) :
                       gameAnswers'.groups[g][i][1] = t.playerId
                       => gameAnswers'.groups[g][i][2] = t.cellId]_vars

\* p1's stored answer is about to be replaced by a re-vote for another cell,
\* and p1 has an in-memory vote as well.
C17_Witness ==
    \E t \in Running :
        /\ t.kind = "select_answer" /\ t.pc = "recordPlayerAnswer"
        /\ \E i \in 1..Len(playerAnswers[currentQuestion]) :
              /\ playerAnswers[currentQuestion][i].playerId = t.playerId
              /\ playerAnswers[currentQuestion][i].cellId # t.cellId
        /\ t.playerId \in LiveVoters(GroupVotes(t.group))
        /\ ENABLED handleSelectAnswer_recordPlayerAnswer

\* C18: once a second socket has registered under the (gameId, participantId)
\* of an earlier one, every later broadcast to the game (here: the game view
\* and game_over sent when the status changes) reaches the new socket while
\* it is open and nothing is sent to the old one, whenever the old socket's
\* close event comes.
C18_BroadcastReachesNewSocket ==
    [][/\ (status' # status /\ sockState["s1b"] = "open")
          => \E m \in sent' : m.to = "s1b"
       /\ sockState["s1b"] # "new" => \A m \in sent' : m.to # "s1"]_vars

\* C19: a socket opened on the path of a stored game, whatever participant
\* id the path carries, is sent a game_update in the step that registers it.
C19_SnapshotOnConnect ==
    [][\A s \in DOMAIN sockState :
          (sockState[s] = "new" /\ sockState'[s] = "open" /\ GameExists(SockGame(s)))
          => \E m \in sent' : m.to = s /\ m.type = "game_update"]_vars

\* The groups whose boards and members a game_update carries: game.groups in
\* the host's view, currentGroup in a player's.
ViewGroups(m) == IF m.info[1] = "host" THEN Groups ELSE {m.info[2]}

\* C20: a game_update sent to a player's connection carries the board and
\* members of that player's own group only, and the view with the list of all
\* groups goes to the host's connection only.
C20_PlayerSeesOwnGroupOnly ==
    \A m \in sent :
        m.type = "game_update"
        => /\ m.info[1] = "host" <=> SockPid(m.to) = "host"
           /\ SockPid(m.to) # "host"
                => ViewGroups(m) = {FindPlayerGroup(SockPid(m.to))}

\* p1 of g1 has just been sent a game_update while g2 has a player and a
\* board of its own, and the host has been sent one in the same step.
C20_Witness ==
    /\ \E m \in sent : m.type = "game_update" /\ m.to = "s1"
    /\ \E m \in sent : m.type = "game_update" /\ m.to = "sh"
    /\ FindPlayerGroup("p1") = "g1"
    /\ Len(players["g2"]) > 0

\* The events the protocol reserves for the host.
HostEventTypes == {"start_game", "end_game", "next_question", "host_selected",
                   "reveal_answer"}

\* C21: a host event (start_game, end_game, next_question, host_selected,
\* reveal_answer) that arrived on a player's connection changes no stored or
\* in-memory state, schedules nothing and sends nothing but an error reply to
\* its sender.
C21_HostEventsNeedHostConnection ==
    [][\A t \in Running :
          (/\ t.via = "ws" /\ t.kind \in HostEventTypes
           /\ SockPid(t.origin) # "host"
           /\ Handled(t))
          => /\ UNCHANGED <<storageVars, gameAnswers, timers>>
             /\ sent' \subseteq {ErrorTo(t.origin)}]_vars

\* C22: when a next_question that found an unused question completes, that
\* question is the game's current question, no group has an in-memory vote
\* and no answer is stored for the new current question.
C22_NextQuestionClearsVotes ==
    [][\A t \in Running :
          (/\ t.kind = "next_question" /\ t.pc = "updateCurrentQuestion"
           /\ Handled(t) /\ ~StorageCallFailed)
          => /\ currentQuestion' = t.q
             /\ NoVotes'
             /\ playerAnswers'[currentQuestion'] = <<>>]_vars

\* C23: in every state in which the game is active it has a current
\* question (game.currentQuestion is defined), from the step that made it
\* active on.
C23_ActiveHasCurrentQuestion ==
    status = "active" => currentQuestion \in Questions

\* The question getNextQuestion marked used last (questions are found in
\* list order): 0 when none is used.
LastUsed ==
    IF UsedCount = 0 THEN 0
    ELSE CHOOSE q \in Questions : used[q] /\ \A r \in Questions : used[r] => r <= q

\* C24: for any interleaving of concurrent next_question events a used flag
\* never goes back to false, getNextQuestion returns the first question of
\* the list not returned before, and once every handler has finished the
\* current question is the one that was marked used last.
C24_ConcurrentNextQuestion ==
    /\ [][\A q \in Questions : used[q] => used'[q]]_vars
    /\ [][\A t \in Running :
             (t.kind = "next_question" /\ t.pc = "getNextQuestion" /\ Handled(t)
                /\ FirstUnused # 0)
             => /\ ~used[FirstUnused]
                /\ \A r \in Questions : r < FirstUnused => used[r]
                /\ tasks' = Move(t, [t EXCEPT !.pc = "updateCurrentQuestion",
                                              !.q = FirstUnused])]_vars
    /\ [](tasks = EmptyBag => currentQuestion = LastUsed)

\* The place of a handler's event among the votes received: in-flight votes
\* differ, so it is the last entry for its voter and cell.
ArrivalIndex(t) ==
    CHOOSE i \in 0..Len(arrivals) :
        /\ i > 0 => arrivals[i] = <<t.playerId, t.cellId>>
        /\ \A j \in (i + 1)..Len(arrivals) : arrivals[j] # <<t.playerId, t.cellId>>
        /\ i = 0 => \A j \in 1..Len(arrivals) : arrivals[j] # <<t.playerId, t.cellId>>

\* The handler of a select_answer has yet to store its vote and will.
WillRecord(t) ==
    /\ t.kind = "select_answer" /\ t.pc \in {"getGame", "recordPlayerAnswer"}
    /\ status = "active"
    /\ FindPlayerGroup(t.playerId) # Undefined
    /\ CellIdOk(t.cellId)

\* C25: when a connection sent event e1 and then event e2, no storage or
\* session-state effect of e2 takes place while e1 has yet to store its
\* vote: a step of e2's handler taken then changes nothing.
C25_SameConnectionInOrder ==
    [][\A e1, e2 \in Running :
          (/\ e1.via = "ws" /\ e2.via = "ws" /\ e1.origin = e2.origin
           /\ ArrivalIndex(e1) < ArrivalIndex(e2)
           /\ WillRecord(e1)
           /\ Handled(e2))
          => UNCHANGED <<storageVars, gameAnswers>>]_vars

\* Handling the votes received one at a time, each to completion before the
\* next: a vote is stored (replacing its voter's), the consensus of the
\* stored votes is applied to its cell and the line check follows.  A state
\* of that run is the stored votes, the positions marked correct and the
\* bingo flag of g1; SerialOutcomes is what the orders of `todo` end with.
Marked(g) == {board[g][i].position : i \in {j \in 1..Len(board[g]) : board[g][j].correct}}

SerialVotes(votes, v) ==
    LET hits == {i \in 1..Len(votes) : votes[i][1] = v[1]}
    IN  IF hits = {} THEN Append(votes, v)
        ELSE [votes EXCEPT ![CHOOSE i \in hits : TRUE] = v]

SerialMarks(marks, cellId) ==
    LET i == FindCell("g1", CellPosition(cellId))
    IN  IF i = 0 THEN marks
        ELSE IF board["g1"][i].answer = currentQuestion
        THEN marks \cup {board["g1"][i].position}
        ELSE marks \ {board["g1"][i].position}

SerialLine(marks) ==
    LET cells == SelectSeq(createPositionGrid(BoardSize), LAMBDA pos : pos \in marks)
    IN  Len(cells) >= BoardSize /\ checkBingoPattern(cells, BoardSize) # <<>>

RECURSIVE SerialOutcomes(_, _, _, _)
SerialOutcomes(votes, marks, bingo, todo) ==
    IF todo = {} THEN {<<marks, bingo>>}
    ELSE UNION {
           SerialOutcomes(
               SerialVotes(votes, arrivals[i]),
               SerialMarks(marks, MostCommonAnswer(VotedCells(SerialVotes(votes, arrivals[i])))),
               bingo \/ SerialLine(SerialMarks(marks,
                           MostCommonAnswer(VotedCells(SerialVotes(votes, arrivals[i]))))),
               todo \ {i}) : i \in todo}

\* A select_answer handler of group g other than t that has yet to apply a
\* consensus.
OtherApplier(t, g) ==
    \/ CopiesIn(t, tasks) > 1
    \/ \E t2 \in Running \ {t} :
          /\ t2.kind = "select_answer"
          /\ t2.pc \in {"getGame", "recordPlayerAnswer", "getGroupAnswers",
                        "setGroupAnswer"}
          /\ (t2.group = g \/ FindPlayerGroup(t2.playerId) = g)

\* C26: for any interleaving of concurrent select_answer events of one
\* group on one question, once every handler has finished the group's cell
\* flags and hasBingo are what handling the events one at a time in some
\* order gives, and the consensus applied last (by a handler after which no
\* other is left to apply one) is the consensus of the group's votes as they
\* then stand.
C26_ConcurrentVotesSerialize ==
    /\ [](tasks = EmptyBag
            => <<Marked("g1"), hasBingo["g1"]>>
                  \in SerialOutcomes(<<>>, {}, FALSE, 1..Len(arrivals)))
    /\ [][\A t \in Running :
             (/\ t.kind = "select_answer" /\ t.pc = "setGroupAnswer"
              /\ Handled(t) /\ ~OtherApplier(t, t.group))
             => t.answer = MostCommonAnswer(CellsOf(getGroupAnswers(t.group)))]_vars

\* The entries of gameConnections under a game's id.
Registered(gid, conns) == [k \in {x \in DOMAIN conns : x[1] = gid} |-> conns[k]]

\* The step is an event of game H: one of its sockets closes.
OtherGameEvent == \E s \in OtherSockets : sockState'[s] # sockState[s]

C28_FailedWriteDoesNotStopBroadcast ==
    [][\A t \in Running :
          (/\ t.via = "ws" /\ t.pc \in {"updateGameStatus", "updateCurrentQuestion"}
           /\ Handled(t) /\ ~StorageCallFailed)
          => /\ t.kind = "start_game" => status' = "active"
             /\ t.pc = "updateCurrentQuestion" => currentQuestion' = t.q
             /\ \A k \in OpenKeys(t.gid) :
                    (/\ gameConnections[k] \notin failing
                     /\ (k[2] = "host" \/ FindPlayerGroup(k[2]) # Undefined))
                    => \E m \in sent' : /\ m.to = gameConnections[k]
                                        /\ m.type = "game_update"]_vars

\* The entries of a group's player list that carry the id p.
Memberships(g, p) == {i \in 1..Len(players[g]) : players[g][i] = p}

\* C29: every player id is in the player list of exactly one group, once;
\* a player never leaves its group or appears in another; and a join is
\* accepted (a player is added) only while the game is waiting.
C29_MembershipIsFixed ==
    /\ [](\A p \in AllPlayers :
             /\ Cardinality({g \in Groups : Memberships(g, p) # {}}) = 1
             /\ \A g \in Groups : Cardinality(Memberships(g, p)) <= 1)
    /\ [][/\ \A g \in Groups : \A p \in SeqToSet(players[g]) :
                 p \in SeqToSet(players'[g])
          /\ players' # players => status = "waiting" /\ status' = "waiting"]_vars

\* A join passed the controller's status check while the game was waiting
\* and reaches addPlayerToGame after the game was started, with a player
\* already in a group.
C29_Witness ==
    \E t \in Running :
        /\ t.kind = "join" /\ t.pc = "addPlayerToGame"
        /\ status = "active"
        /\ AllPlayers # {}
        /\ ENABLED joinGame_addPlayerToGame

\* The cell at a position has been revealed: a group's board has it marked
\* correct.
Revealed(position) ==
    \E g \in Groups : \E i \in 1..Len(board[g]) :
        board[g][i].position = position /\ board[g][i].correct

\* C30: a well-formed host_selected handled on the active game empties the
\* in-flight votes of every group, sends host_selected to every open player
\* connection and not to the host, and schedules one automatic reveal; for a
\* cell that has already been revealed it does none of this.
C30_HostSelectionOpensVoting ==
    [][\A t \in Running :
          (/\ t.kind = "host_selected" /\ t.pc = "getGame" /\ ~Malformed(t)
           /\ GameExists(t.gid) /\ status = "active"
           /\ Handled(t))
          => IF Revealed(t.position)
             THEN /\ UNCHANGED <<gameAnswers, timers>>
                  /\ \A m \in sent' : m.type # "host_selected"
             ELSE /\ NoVotes'
                  /\ \A k \in OpenKeys(t.gid) :
                         (k[2] # "host")
                         <=> \E m \in sent' : /\ m.to = gameConnections[k]
                                              /\ m.type = "host_selected"
                  /\ timers' = timers + 1]_vars

\* The lines of a board of the given size in the order rows top to bottom,
\* columns left to right, main diagonal, anti-diagonal, each as the labels of
\* its cells.
Letters == <<"A", "B", "C", "D", "E", "F">>
Digits == <<"1", "2", "3", "4", "5", "6">>
LinesInOrder(size) ==
    [k \in 1..(2 * size + 2) |->
        [n \in 1..size |->
            IF k <= size THEN Letters[k] \o Digits[n]
            ELSE IF k <= 2 * size THEN Letters[n] \o Digits[k - size]
            ELSE IF k = 2 * size + 1 THEN Letters[n] \o Digits[n]
            ELSE Letters[n] \o Digits[size + 1 - n]]]

CompleteLines(size, marked) ==
    {k \in 1..(2 * size + 2) : SeqToSet(LinesInOrder(size)[k]) \subseteq marked}

\* C31: for every set of marked positions and every board size N in 3..6,
\* checkBingoPattern returns the first complete line in the order rows top
\* to bottom, columns left to right, main diagonal, anti-diagonal, as N
\* positions all contained in the marked set; it returns no pattern exactly
\* when no line is complete, in particular whenever fewer than N distinct
\* positions are marked.
C31_FirstCompleteLine ==
    call.boardSize \in BoardSizes =>
        LET complete == CompleteLines(call.boardSize, call.marked)
            first == CHOOSE k \in complete : \A n \in complete : k <= n
        IN  /\ complete # {} =>
                /\ call.pattern = LinesInOrder(call.boardSize)[first]
                /\ Len(call.pattern) = call.boardSize
                /\ SeqToSet(call.pattern) \subseteq call.marked
            /\ (complete = {}) <=> (call.pattern = <<>>)
            /\ Cardinality(call.marked) < call.boardSize => call.pattern = <<>>

\* A board of size 6 whose top row, first column and main diagonal are all
\* complete, the array passed repeating an entry.
C31_Witness ==
    /\ call.boardSize = 6
    /\ call.repeat
    /\ {1, 7} \subseteq CompleteLines(6, call.marked)
    /\ call.pattern = <<"A1", "A2", "A3", "A4", "A5", "A6">>

\* C32: for every N in {3,4,5,6}, createPositionGrid(N) returns N*N pairwise
\* distinct labels in row-major order, one for every (row, column) pair, each
\* formed as the row letter (A for row 0) followed by the 1-based column
\* number.
C32_GridLabels ==
    call.boardSize \in BoardSizes =>
        LET size == call.boardSize
            grid == call.positions
        IN  /\ Len(grid) = size * size
            /\ \A i, j \in 1..Len(grid) : i # j => grid[i] # grid[j]
            /\ \A row, col \in 0..(size - 1) :
                   grid[row * size + col + 1] = Letters[row + 1] \o Digits[col + 1]

\* The grid of a board of size 4: sixteen labels, the fifth of them B1.
C32_Witness ==
    /\ call.boardSize = 4
    /\ Len(call.positions) = 16
    /\ call.positions[5] = "B1"
    /\ call.positions[16] = "D4"

\* C33: in every reachable state, if a group's hasBingo is true then every
\* cell of its recorded bingoPattern is currently marked correct on that
\* group's board.
C33_PatternStaysMarked ==
    \A g \in Groups :
        hasBingo[g] =>
            \A n \in 1..Len(bingoPattern[g]) :
                /\ FindCell(g, bingoPattern[g][n]) # 0
                /\ board[g][FindCell(g, bingoPattern[g][n])].correct

\* C34: after a game's status has become completed, no group's cell correct
\* flag, hasBingo or bingoPattern changes and no bingo_achieved is sent, even
\* for select_answer events that had already passed their status check when
\* end_game or the final next_question completed the game.
C34_CompletedGameIsFrozen ==
    [][status = "completed" =>
          /\ board' = board
          /\ hasBingo' = hasBingo
          /\ bingoPattern' = bingoPattern
          /\ \A m \in sent' : m.type # "bingo_achieved"]_vars

\* C35: an automatic reveal timer that fires after its game has completed
\* changes no cell flag, bingo flag, stored answer or in-memory vote and
\* sends no message to any connection.
C35_LateTimerDoesNothing ==
    [][\A t \in Running :
          (t.via = "timer" /\ t.origin = "after_end" /\ Handled(t)) =>
              /\ UNCHANGED <<board, hasBingo, bingoPattern, playerAnswers>>
              /\ \A g \in Groups : GroupVotes(g)' = GroupVotes(g)
              /\ sent' = {}]_vars

\* The entries of a sequence of votes that a step wrote: those that were not
\* there before or differ from what was there.
Written(before, after) ==
    {after[i] : i \in {j \in 1..Len(after) : j > Len(before) \/ after[j] # before[j]}}

\* C36: a vote recorded by select_answer or answer_select is attributed to
\* the participant id of the connection it arrived on: a connection cannot
\* cast or overwrite the vote of a different player id by putting that id in
\* the message payload.
C36_VoteBelongsToConnection ==
    [][\A t \in Running :
          (Handled(t) /\ t.via = "ws") =>
              /\ \A a \in Written(playerAnswers[currentQuestion],
                                  playerAnswers'[currentQuestion]) :
                     a.playerId = SockPid(t.origin)
              /\ \A g \in Groups :
                     \A v \in Written(GroupVotes(g), GroupVotes(g)') :
                         v[1] = SockPid(t.origin)]_vars

\* The groups whose board cells a message shows the content of.
ContentGroups(m) ==
    IF m.type = "game_update" THEN ViewGroups(m)
    ELSE IF m.type = "host_selected"
    THEN (IF m.info[2] = Undefined THEN {} ELSE {m.info[2]})
    ELSE IF m.type = "player_vote"
    THEN (IF m.info[4] = <<>> THEN {} ELSE {m.info[4][1]})
    ELSE {}

\* C37: no message of any type sent to a player connection (game_update,
\* host_selected, player_vote, bingo_achieved, player_joined) carries the
\* content of a cell of a board belonging to a group other than that
\* player's own group.
C37_OnlyOwnBoardContent ==
    \A m \in sent :
        (m.to \in DOMAIN sockState /\ SockPid(m.to) # "host") =>
            ContentGroups(m) \subseteq {FindPlayerGroup(SockPid(m.to))}

\* The questions that have been made current so far: the used ones, less
\* those a handler has taken and not yet stored as the current question.
MadeCurrent ==
    {q \in Questions : used[q]}
        \ {t.q : t \in {x \in Running : x.kind = "next_question"
                                        /\ x.pc = "updateCurrentQuestion"}}

\* C38: in an active game with k questions and no storage failure, if the
\* host keeps issuing next_question then each of the first k events makes a
\* distinct, previously unused question current and the (k+1)-th sets the
\* status to completed; the game always eventually reaches completed.
C38_QuestionsRunOut ==
    /\ [][\A t \in Running :
             (Handled(t) /\ t.kind = "next_question") =>
                 /\ used' # used =>
                        \E q \in Questions :
                            /\ ~used[q]
                            /\ used' = [used EXCEPT ![q] = TRUE]
                            /\ tasks' = Move(t, [t EXCEPT !.pc = "updateCurrentQuestion",
                                                          !.q = q])
                 /\ t.pc = "updateCurrentQuestion" =>
                        /\ currentQuestion' = t.q
                        /\ t.q \in Questions /\ used[t.q]
                        /\ t.q \notin MadeCurrent
                        /\ CopiesIn(t, tasks) = 1
                 /\ t.pc = "getNextQuestion" =>
                        (used' = used <=> Cardinality(MadeCurrent) +
                            Cardinality({x \in Running : x.pc = "updateCurrentQuestion"})
                                = NumQuestions)
                 /\ status' # status =>
                        /\ status' = "completed"
                        /\ \A q \in Questions : used[q]]_vars
    /\ <>(status = "completed")

\* Every question has been made current, the last of them is the current
\* one, and the next event has completed the game.
C38_Witness ==
    /\ status = "completed"
    /\ MadeCurrent = Questions
    /\ currentQuestion = NumQuestions
    /\ tasks = EmptyBag
    /\ \E m \in sent : m.type = "game_over"

\* C39: each join assigns the new player to a group with the fewest players
\* (the first such group in group order), so after any sequence of joins,
\* including concurrent ones, the sizes of any two groups of a game differ by
\* at most one.
C39_GroupsStayBalanced ==
    /\ [][players' # players =>
              \E p \in SeqToSet(PlayerIds) \ AllPlayers :
                  players' = [players EXCEPT ![MinPlayersGroup] = Append(@, p)]]_vars
    /\ [](\A g, h \in Groups : Len(players[g]) - Len(players[h]) <= 1)

====
